---------------------------- MODULE Spec2Model ----------------------------
(***************************************************************************)
(* A model of the kv-backed task scheduler and run ledger                  *)
(* (package kv, src/unnamed/part_003).                                     *)
(*                                                                         *)
(* The three buckets are functions from keys to values.  A key is the      *)
(* sequence of its segments: an encoded ID is one segment (the encoding    *)
(* is fixed-width, so byte order is segment order), and the reserved       *)
(* suffixes "latestCompleted" and "manualRuns" are segments that sort      *)
(* after every encoded ID ('l' and 'm' follow every hex digit).            *)
(* Every exported method runs its body in one kv.Update / kv.View          *)
(* transaction, so every action is one atomic step.                        *)
(*                                                                         *)
(* The module also models three small concurrent programs of the           *)
(* repository: makeThubnails4 (src/src/xgboost/test.go), mirroredQuery     *)
(* (src/src/channels/bufferchannel.go) and the singleton accessors         *)
(* (src/src/profiling/test.go).  A goroutine is a program counter, a       *)
(* channel is its capacity and its buffer, and every step of a goroutine   *)
(* between two accesses to shared memory is one action.                    *)
(***************************************************************************)
EXTENDS Integers, Sequences, FiniteSets, TLC

VARIABLES
    taskB,    \* bucket "tasksv1"
    runB,     \* bucket "taskRunsv1"
    indexB,   \* bucket "taskIndexsv1"
    urm,      \* owner mappings written by createUserResourceMapping
    nextID,   \* the next value s.IDGenerator.ID() returns
    clock,    \* wall clock, in seconds (time.Now())
    known,    \* the task IDs CreateTask has returned to the caller
    writes,   \* the number of lifecycle writes (UpdateRunState, AddRunLog, CancelRun) so far
    ticks,    \* history: the runs created on the scheduled path, in order of creation
    finished, \* history: <<task, scheduledFor>> of every run FinishRun has returned
    workers,  \* the concurrent callers of ForceRun: what each asked for and got
    last,     \* the last call: its name, arguments, result and the store before it
    errors,        \* makeThubnails4: the channel errors (capacity and buffer)
    thumbWorkers,  \* makeThubnails4: the goroutine of each filename
    thumbMain,     \* makeThubnails4: the calling goroutine
    responses,     \* mirroredQuery: the channel responses (capacity and buffer)
    senders,       \* mirroredQuery: the goroutine of each request
    query,         \* mirroredQuery: the calling goroutine
    sent,          \* mirroredQuery, history: the responses in the order they were sent
    single1,       \* package singleton: var single1 *Single
    single4,       \* package singleton: var single4 *Single
    single5,       \* package singleton: var single5 *Single
    mux,           \* package singleton: var mux sync.Mutex (its holder)
    mux1,          \* package singleton: var mux1 sync.Mutex (its holder)
    once,          \* package singleton: var once sync.Once
    allocs,        \* package singleton, history: the accessor that allocated each Single
    callers        \* package singleton: the goroutines that call an accessor

storeVars ==
    <<taskB, runB, indexB, urm, nextID, clock, known, writes, ticks, finished, workers, last>>
thumbVars == <<errors, thumbWorkers, thumbMain>>
queryVars == <<responses, senders, query, sent>>
singleVars == <<single1, single4, single5, mux, mux1, once, allocs, callers>>
goVars == <<thumbVars, queryVars, singleVars>>

vars == <<storeVars, goVars>>

----------------------------------------------------------------------------
(* Bounds of the model *)

MaxTime == 2     \* the clock and the forced scheduledFor values range over 0..MaxTime
MaxID == 3       \* the ID generator is asked for at most MaxID identifiers
MaxWrites == 1   \* at most MaxWrites lifecycle writes are made
MaxTasks == 1    \* CreateTask succeeds at most MaxTasks times
MaxWorkers == 3  \* the number of concurrent callers of ForceRun

Workers == 1..MaxWorkers

Orgs == {1, 2}          \* the organizations that exist
Periods == {1, 2}       \* the schedule periods a task is created with, in seconds
Offsets == {0, 1}       \* the offsets a task is created with, in seconds
Kinds == {"every", "cron"}

----------------------------------------------------------------------------
(* Times and their RFC3339 text *)

\* time.Time{}: before every Unix time
ZeroTime == -1

\* the empty string of a text field
Empty == <<>>

\* t.Format(time.RFC3339): the minute and second fields of the text
Format(t) == <<t \div 60, t % 60>>

\* time.Parse(time.RFC3339, s)
Parse(s) == s[1] * 60 + s[2]

\* an After that also holds of equal times
AfterOrEqual(a, b) == a >= b

\* a.After(b)
After(a, b) == a > b

----------------------------------------------------------------------------
(* Errors *)

ErrTaskNotFound == "backend.ErrTaskNotFound"
ErrRunNotFound == "ErrRunNotFound"
ErrOrgNotFound == "ErrOrgNotFound"
ErrTaskRunAlreadyQueued == "ErrTaskRunAlreadyQueued"
ErrUnexpectedTaskBucketErr == "ErrUnexpectedTaskBucketErr"
ErrTaskOptionParse == "ErrTaskOptionParse"
ErrKeyNotFound == "ErrKeyNotFound"
RunNotYetDueError == "RunNotYetDueError"
ErrPageSizeTooSmall == "ErrPageSizeTooSmall"
ErrPageSizeTooLarge == "ErrPageSizeTooLarge"
ErrNoFilter == "find tasks requires filtering by org or user"
NoErr == "nil"

\* the Code field of each error value
Code(err) ==
    CASE err = ErrRunNotFound -> "ENotFound"
      [] err = ErrOrgNotFound -> "ENotFound"
      [] err = ErrTaskRunAlreadyQueued -> "EConflict"
      [] err = ErrUnexpectedTaskBucketErr -> "EInternal"
      [] err = ErrTaskOptionParse -> "EInvalid"
      [] err = ErrPageSizeTooSmall -> "EInvalid"
      [] err = ErrPageSizeTooLarge -> "EInvalid"
      [] OTHER -> "none"

----------------------------------------------------------------------------
(* Keys *)

LatestCompletedSuffix == 101
ManualRunsSuffix == 102

taskKey(taskID) == <<taskID>>
taskLatestCompletedKey(taskID) == <<taskID, LatestCompletedSuffix>>
taskManualRunKey(taskID) == <<taskID, ManualRunsSuffix>>
taskOrgKey(orgID, taskID) == <<orgID, taskID>>
taskRunKey(taskID, runID) == <<taskID, runID>>

\* strings.HasPrefix(k, p)
HasPrefix(k, p) == Len(p) <= Len(k) /\ SubSeq(k, 1, Len(p)) = p

\* strings.HasSuffix(k, "manualRuns") || strings.HasSuffix(k, "latestCompleted")
HasReservedSuffix(k) ==
    Len(k) >= 1 /\ k[Len(k)] \in {ManualRunsSuffix, LatestCompletedSuffix}

\* byte-lexicographic order of keys
RECURSIVE KeyLess(_, _)
KeyLess(a, b) ==
    IF a = <<>> THEN b # <<>>
    ELSE IF b = <<>> THEN FALSE
    ELSE IF a[1] # b[1] THEN a[1] < b[1]
    ELSE KeyLess(Tail(a), Tail(b))

----------------------------------------------------------------------------
(* The storage transaction *)

\* b.Get(key)
Get(b, k) ==
    IF k \in DOMAIN b THEN [err |-> NoErr, val |-> b[k]]
    ELSE [err |-> ErrKeyNotFound, val |-> <<>>]

\* b.Put(key, value)
Put(b, k, v) == [x \in DOMAIN b \cup {k} |-> IF x = k THEN v ELSE b[x]]

\* b.Delete(key)
Delete(b, k) == [x \in DOMAIN b \ {k} |-> b[x]]

\* the keys of a bucket in cursor order
RECURSIVE SortedKeys(_)
SortedKeys(S) ==
    IF S = {} THEN <<>>
    ELSE LET m == CHOOSE x \in S : \A y \in S \ {x} : KeyLess(x, y)
         IN <<m>> \o SortedKeys(S \ {m})

\* c.Seek(key): the index of the first key not below key
SeekIndex(ks, key) ==
    LET hits == {i \in 1..Len(ks) : ~KeyLess(ks[i], key)}
    IN IF hits = {} THEN Len(ks) + 1
       ELSE CHOOSE i \in hits : \A j \in hits : i <= j

\* kv.Update(fn): fn's writes are committed iff fn returns no error
Update(tx, res) == IF res.err = NoErr THEN res.tx ELSE tx

Tx == [tasks |-> taskB, runs |-> runB, index |-> indexB, urm |-> urm]


\* an operation's outcome: its error, the transaction's store and its return value
\* gen counts the identifiers the call drew from s.IDGenerator
Ok(tx, ret) == [err |-> NoErr, tx |-> tx, ret |-> ret, gen |-> 0]
Fail(tx, e) == [err |-> e, tx |-> tx, ret |-> <<>>, gen |-> 0]
WithID(res) == [res EXCEPT !.gen = 1]

----------------------------------------------------------------------------
(* The cron evaluator *)

\* task.EffectiveCron(): the cron expression if set, else "@every <Every>"
EffectiveCron(task) ==
    IF task.Cron # 0 THEN [kind |-> "cron", period |-> task.Cron]
    ELSE [kind |-> "every", period |-> task.Every]

\* sch.Next(t): the first activation strictly after t
CronNext(sch, t) ==
    IF sch.kind = "cron" THEN ((t \div sch.period) + 1) * sch.period
    ELSE t + sch.period

\* offset.Add(t)
OffsetAdd(offset, t) == t + offset

----------------------------------------------------------------------------
(* Run accessors *)

\* r.ScheduledForTime()
ScheduledForTime(r) == Parse(r.ScheduledFor)

\* r.RequestedAtTime(): the zero time for a run that was not requested
RequestedAtTime(r) == IF r.RequestedAt = Empty THEN ZeroTime ELSE Parse(r.RequestedAt)

----------------------------------------------------------------------------
(* Reads *)

findLatestCompleted(tx, id) ==
    LET g == Get(tx.runs, taskLatestCompletedKey(id))
    IN IF g.err # NoErr
       THEN [err |-> NoErr, found |-> FALSE, run |-> <<>>]
       ELSE [err |-> NoErr, found |-> TRUE, run |-> g.val]

findLatestCompletedTime(tx, id) ==
    LET l == findLatestCompleted(tx, id)
    IN IF ~l.found THEN ZeroTime ELSE ScheduledForTime(l.run)

findTaskByID(tx, id) ==
    LET g == Get(tx.tasks, taskKey(id))
    IN IF g.err = ErrKeyNotFound THEN Fail(tx, ErrTaskNotFound)
       ELSE LET latestCompleted == findLatestCompletedTime(tx, id)
            IN Ok(tx, [g.val EXCEPT !.LatestCompleted =
                          IF latestCompleted # ZeroTime THEN Format(latestCompleted)
                          ELSE g.val.CreatedAt])

manualRuns(tx, taskID) ==
    LET g == Get(tx.runs, taskManualRunKey(taskID))
    IN IF g.err # NoErr
       THEN IF g.err = ErrKeyNotFound THEN Ok(tx, <<>>)
            ELSE Fail(tx, ErrUnexpectedTaskBucketErr)
       ELSE Ok(tx, g.val)

\* a scan that skips the manual queue only and takes the pointer for a run
RECURSIVE crScanPointerToo(_, _, _, _, _)
crScanPointerToo(b, ks, i, taskID, runs) ==
    IF i > Len(ks) \/ ~HasPrefix(ks[i], taskKey(taskID)) THEN runs
    ELSE IF ks[i][Len(ks[i])] = ManualRunsSuffix
         THEN crScanPointerToo(b, ks, i + 1, taskID, runs)
    ELSE IF b[ks[i]].TaskID # taskID THEN runs
    ELSE crScanPointerToo(b, ks, i + 1, taskID, Append(runs, b[ks[i]]))

\* the loop of currentlyRunning, the cursor standing at ks[i]
RECURSIVE crScan(_, _, _, _, _)
crScan(b, ks, i, taskID, runs) ==
    IF i > Len(ks) \/ ~HasPrefix(ks[i], taskKey(taskID)) THEN runs
    ELSE IF HasReservedSuffix(ks[i]) THEN crScan(b, ks, i + 1, taskID, runs)
    ELSE IF b[ks[i]].TaskID # taskID THEN runs
    ELSE crScan(b, ks, i + 1, taskID, Append(runs, b[ks[i]]))

currentlyRunning(tx, taskID) ==
    LET ks == SortedKeys(DOMAIN tx.runs)
    IN Ok(tx, crScan(tx.runs, ks, SeekIndex(ks, taskKey(taskID)), taskID, <<>>))

TaskMaxPageSize == 500

\* findRuns with the zero filter.Limit deleteTask passes
findRuns(tx, taskID) ==
    LET limit == TaskMaxPageSize
        m == manualRuns(tx, taskID).ret
        c == currentlyRunning(tx, taskID).ret
    IN IF Len(m) >= limit THEN Ok(tx, SubSeq(m, 1, limit))
       ELSE IF Len(m) + Len(c) >= limit THEN Ok(tx, m \o SubSeq(c, 1, limit - Len(m)))
       ELSE Ok(tx, m \o c)

findRunByID(tx, taskID, runID) ==
    LET g == Get(tx.runs, taskRunKey(taskID, runID))
    IN IF g.err # NoErr
       THEN IF g.err # ErrKeyNotFound THEN Fail(tx, ErrRunNotFound)
            ELSE Fail(tx, ErrUnexpectedTaskBucketErr)
       ELSE Ok(tx, g.val)

----------------------------------------------------------------------------
(* Task store *)

NoOrg == 0

TaskDefaultPageSize == 100

\* no filter.After, no filter.User
NoID == 0

\* influxdb.IDFromString(string(v)) of an index value, the encoded task ID
IDFromValue(v) == v[1]

\* the loop of findTasks over the owner mappings maps[i..] of the user
RECURSIVE userScan(_, _, _, _, _, _)
userScan(tx, maps, i, org, limit, ts) ==
    IF i > Len(maps) THEN Ok(tx, ts)
    ELSE LET f == findTaskByID(tx, maps[i][1])
         IN IF f.err # NoErr THEN Fail(tx, f.err)
            ELSE IF org # NoOrg /\ f.ret.OrganizationID # org
                 THEN userScan(tx, maps, i + 1, org, limit, ts)
            ELSE IF Len(ts) + 1 >= limit THEN Ok(tx, Append(ts, f.ret))
            ELSE userScan(tx, maps, i + 1, org, limit, Append(ts, f.ret))

\* the loop of findTasks over the org index, c.Next() standing at ks[i]
RECURSIVE orgScan(_, _, _, _, _, _)
orgScan(tx, ks, i, org, limit, ts) ==
    IF i > Len(ks) THEN Ok(tx, ts)
    ELSE LET f == findTaskByID(tx, IDFromValue(tx.index[ks[i]]))
         IN IF f.err # NoErr THEN Fail(tx, f.err)
            ELSE IF f.ret.OrganizationID # org THEN Ok(tx, ts)
            ELSE IF Len(ts) + 1 >= limit THEN Ok(tx, Append(ts, f.ret))
            ELSE orgScan(tx, ks, i + 1, org, limit, Append(ts, f.ret))

\* filter.OrganizationID, filter.After and filter.User are NoOrg and NoID when nil;
\* the user's owner mappings are read in the order of the task IDs
findTasks(tx, filter) ==
    LET org == filter.OrganizationID
        limit == IF filter.Limit = 0 THEN TaskDefaultPageSize ELSE filter.Limit
        ks == SortedKeys(DOMAIN tx.index)
    IN IF filter.User = NoID /\ org = NoOrg THEN Fail(tx, ErrNoFilter)
       ELSE IF org # NoOrg /\ org \notin Orgs THEN Fail(tx, ErrOrgNotFound)
       ELSE IF filter.Limit < 0 THEN Fail(tx, ErrPageSizeTooSmall)
       ELSE IF filter.Limit > TaskMaxPageSize THEN Fail(tx, ErrPageSizeTooLarge)
       ELSE IF filter.User # NoID
            THEN userScan(tx, SortedKeys({<<id>> : id \in tx.urm}), 1, org, limit, <<>>)
       ELSE IF filter.After # NoID
            THEN orgScan(tx, ks, SeekIndex(ks, taskOrgKey(org, filter.After)) + 1,
                         org, limit, <<>>)
       ELSE LET i == SeekIndex(ks, <<org>>)
            IN IF i > Len(ks) THEN Ok(tx, <<>>)
               ELSE LET f == findTaskByID(tx, IDFromValue(tx.index[ks[i]]))
                    IN IF f.err # NoErr THEN Fail(tx, f.err)
                       ELSE orgScan(tx, ks, i + 1, org, limit, <<f.ret>>)

\* a createTask that writes no org-index entry
createTaskUnindexed(tx, orgID, opt, id, now) ==
    IF orgID \notin Orgs THEN Fail(tx, ErrOrgNotFound)
    ELSE IF ~opt.ok THEN Fail(tx, ErrTaskOptionParse)
    ELSE LET task == [ID |-> id, OrganizationID |-> orgID, Status |-> "active",
                      Every |-> opt.Every, Cron |-> opt.Cron, Offset |-> opt.Offset,
                      CreatedAt |-> Format(now), UpdatedAt |-> Empty,
                      LatestCompleted |-> Empty]
             t1 == [tx EXCEPT !.tasks = Put(@, taskKey(id), task)]
             t3 == [t1 EXCEPT !.urm = @ \cup {id}]
         IN WithID(Ok(t3, task))

\* opt is the outcome of options.FromScript(tc.Flux); opt.ok is false for a script it rejects
createTask(tx, orgID, opt, id, now) ==
    IF orgID \notin Orgs THEN Fail(tx, ErrOrgNotFound)
    ELSE IF ~opt.ok THEN Fail(tx, ErrTaskOptionParse)
    ELSE LET task == [ID |-> id, OrganizationID |-> orgID, Status |-> "active",
                      Every |-> opt.Every, Cron |-> opt.Cron, Offset |-> opt.Offset,
                      CreatedAt |-> Format(now), UpdatedAt |-> Empty,
                      LatestCompleted |-> Empty]
             t1 == [tx EXCEPT !.tasks = Put(@, taskKey(id), task)]
             t2 == [t1 EXCEPT !.index = Put(@, taskOrgKey(orgID, id), taskKey(id))]
             t3 == [t2 EXCEPT !.urm = @ \cup {id}]
         IN WithID(Ok(t3, task))

\* an updateTask that saves the status and the update time before it reads the script
updateTaskEarlySave(tx, id, upd, now) ==
    LET f == findTaskByID(tx, id)
    IN IF f.err # NoErr THEN Fail(tx, f.err)
       ELSE LET t1 == [f.ret EXCEPT !.Status = IF upd.Status # "" THEN upd.Status ELSE @,
                                    !.UpdatedAt = Format(now)]
                saved == [tx EXCEPT !.tasks = Put(@, taskKey(id), t1)]
            IN IF upd.hasFlux /\ ~upd.opt.ok THEN Ok(saved, t1)
               ELSE LET t2 == IF upd.hasFlux
                              THEN [t1 EXCEPT !.Every = upd.opt.Every, !.Cron = upd.opt.Cron,
                                             !.Offset = IF upd.opt.Offset # 0
                                                        THEN upd.opt.Offset ELSE @]
                              ELSE t1
                    IN Ok([tx EXCEPT !.tasks = Put(@, taskKey(id), t2)], t2)

\* upd.hasFlux: the update carries a script or options; upd.opt is then the outcome
\* of options.FromScript(*upd.Flux); upd.Status is "" when the update sets no status
updateTask(tx, id, upd, now) ==
    LET f == findTaskByID(tx, id)
    IN IF f.err # NoErr THEN Fail(tx, f.err)
       ELSE IF upd.hasFlux /\ ~upd.opt.ok THEN Fail(tx, ErrTaskOptionParse)
       ELSE LET t1 == IF upd.hasFlux
                      THEN [f.ret EXCEPT !.Every = upd.opt.Every, !.Cron = upd.opt.Cron,
                                         !.Offset = IF upd.opt.Offset # 0
                                                    THEN upd.opt.Offset ELSE @]
                      ELSE f.ret
                t2 == [t1 EXCEPT !.Status = IF upd.Status # "" THEN upd.Status ELSE @]
                task == [t2 EXCEPT !.UpdatedAt = Format(now)]
            IN Ok([tx EXCEPT !.tasks = Put(@, taskKey(id), task)], task)

\* a deleteTask that takes a missing task for one already deleted
deleteTaskQuiet(tx, id) ==
    LET f == findTaskByID(tx, id)
    IN IF f.err # NoErr THEN Ok(tx, <<>>)
       ELSE LET task == f.ret
                t1 == [tx EXCEPT !.index = Delete(@, taskOrgKey(task.OrganizationID, task.ID))]
                t2 == [t1 EXCEPT !.runs = Delete(@, taskLatestCompletedKey(task.ID))]
                t3 == [t2 EXCEPT !.tasks = Delete(@, taskKey(task.ID))]
            IN Ok(t3, <<>>)

\* the loop of deleteTask over the runs findRuns returned
RECURSIVE deleteRuns(_, _, _)
deleteRuns(b, taskID, runs) ==
    IF runs = <<>> THEN b
    ELSE deleteRuns(Delete(b, taskRunKey(taskID, Head(runs).ID)), taskID, Tail(runs))

\* a deletion that removes the runs of every task, not only those of id
deleteTaskEveryRun(tx, id) ==
    LET f == findTaskByID(tx, id)
    IN IF f.err # NoErr THEN Fail(tx, f.err)
       ELSE LET task == f.ret
                t1 == [tx EXCEPT !.index = Delete(@, taskOrgKey(task.OrganizationID, task.ID))]
                t2 == [t1 EXCEPT !.runs = Delete(@, taskLatestCompletedKey(task.ID))]
                kept == {k \in DOMAIN t2.runs : HasReservedSuffix(k)}
                t3 == [t2 EXCEPT !.runs = [k \in kept |-> t2.runs[k]]]
                t4 == [t3 EXCEPT !.tasks = Delete(@, taskKey(task.ID))]
            IN Ok(t4, <<>>)

deleteTask(tx, id) ==
    LET f == findTaskByID(tx, id)
    IN IF f.err # NoErr THEN Fail(tx, f.err)
       ELSE LET task == f.ret
                t1 == [tx EXCEPT !.index = Delete(@, taskOrgKey(task.OrganizationID, task.ID))]
                t2 == [t1 EXCEPT !.runs = Delete(@, taskLatestCompletedKey(task.ID))]
                runs == findRuns(t2, task.ID).ret
                t3 == [t2 EXCEPT !.runs = deleteRuns(@, task.ID, runs)]
                t4 == [t3 EXCEPT !.tasks = Delete(@, taskKey(task.ID))]
            IN Ok(t4, <<>>)

----------------------------------------------------------------------------
(* Run lifecycle *)

cancelRun(tx, taskID, runID) ==
    LET f == findRunByID(tx, taskID, runID)
    IN IF f.err # NoErr THEN Fail(tx, f.err)
       ELSE LET run == [f.ret EXCEPT !.Status = "canceled"]
            IN Ok([tx EXCEPT !.tasks = Put(@, taskRunKey(taskID, runID), run)], <<>>)

\* a retryRun that also stores the cleared copy over the run it retries
retryRunInPlace(tx, taskID, runID, id) ==
    LET f == findRunByID(tx, taskID, runID)
    IN IF f.err # NoErr THEN Fail(tx, f.err)
       ELSE LET r == [f.ret EXCEPT !.ID = id, !.Status = "", !.StartedAt = Empty,
                                   !.FinishedAt = Empty, !.RequestedAt = Empty]
                key == taskManualRunKey(taskID)
                g == Get(tx.runs, key)
            IN IF g.err # NoErr
               THEN IF g.err # ErrKeyNotFound THEN WithID(Fail(tx, ErrRunNotFound))
                    ELSE WithID(Fail(tx, ErrUnexpectedTaskBucketErr))
               ELSE LET runs == Append(g.val, r)
                        t1 == [tx EXCEPT !.runs = Put(@, key, runs)]
                    IN WithID(Ok([t1 EXCEPT !.runs = Put(@, taskRunKey(taskID, runID), r)], r))

retryRun(tx, taskID, runID, id) ==
    LET f == findRunByID(tx, taskID, runID)
    IN IF f.err # NoErr THEN Fail(tx, f.err)
       ELSE LET r == [f.ret EXCEPT !.ID = id, !.Status = "", !.StartedAt = Empty,
                                   !.FinishedAt = Empty, !.RequestedAt = Empty]
                key == taskManualRunKey(taskID)
                g == Get(tx.runs, key)
            IN IF g.err # NoErr
               THEN IF g.err # ErrKeyNotFound THEN WithID(Fail(tx, ErrRunNotFound))
                    ELSE WithID(Fail(tx, ErrUnexpectedTaskBucketErr))
               ELSE LET runs == Append(g.val, r)
                    IN WithID(Ok([tx EXCEPT !.runs = Put(@, key, runs)], r))

\* a forceRun that appends without looking at the queue
forceRunUnchecked(tx, taskID, scheduledFor, id, now) ==
    LET r == [ID |-> id, TaskID |-> taskID, Status |-> "", ScheduledFor |-> Format(scheduledFor),
              StartedAt |-> Empty, FinishedAt |-> Empty, RequestedAt |-> Format(now),
              Log |-> <<>>]
        m == manualRuns(tx, taskID)
    IN IF m.err # NoErr THEN WithID(Fail(tx, m.err))
       ELSE LET runs == Append(m.ret, r)
            IN WithID(Ok([tx EXCEPT !.runs = Put(@, taskManualRunKey(taskID), runs)], r))

\* the loop of forceRun: is a run with this scheduledFor queued?
AlreadyQueued(runs, r) == \E i \in 1..Len(runs) : runs[i].ScheduledFor = r.ScheduledFor

forceRun(tx, taskID, scheduledFor, id, now) ==
    LET r == [ID |-> id, TaskID |-> taskID, Status |-> "", ScheduledFor |-> Format(scheduledFor),
              StartedAt |-> Empty, FinishedAt |-> Empty, RequestedAt |-> Format(now),
              Log |-> <<>>]
        m == manualRuns(tx, taskID)
    IN IF m.err # NoErr THEN WithID(Fail(tx, m.err))
       ELSE IF AlreadyQueued(m.ret, r) THEN WithID(Fail(tx, ErrTaskRunAlreadyQueued))
       ELSE LET runs == Append(m.ret, r)
            IN WithID(Ok([tx EXCEPT !.runs = Put(@, taskManualRunKey(taskID), runs)], r))

nextDueRun(tx, taskID) ==
    LET f == findTaskByID(tx, taskID)
    IN IF f.err # NoErr THEN Fail(tx, f.err)
       ELSE LET lc == findLatestCompletedTime(tx, taskID)
                latestCompleted == IF lc = ZeroTime THEN Parse(f.ret.CreatedAt) ELSE lc
            IN Ok(tx, CronNext(EffectiveCron(f.ret), latestCompleted))

\* a createNextRun that serves the run queued last
createManualRunLast(tx, taskID, mRuns) ==
    LET mRun == mRuns[Len(mRuns)]
        rest == SubSeq(mRuns, 1, Len(mRuns) - 1)
        t1 == [tx EXCEPT !.runs = Put(@, taskManualRunKey(taskID), rest)]
        t2 == [t1 EXCEPT !.runs = Put(@, taskRunKey(taskID, mRun.ID), mRun)]
        schedFor == ScheduledForTime(mRun)
        reqAt == RequestedAtTime(mRun)
        nextDue == nextDueRun(t2, taskID)
    IN IF nextDue.err # NoErr THEN Fail(tx, nextDue.err)
       ELSE Ok(t2, [Created |-> [TaskID |-> taskID, RunID |-> mRun.ID, Now |-> schedFor,
                                 RequestedAt |-> IF reqAt # ZeroTime THEN reqAt ELSE 0],
                    NextDue |-> nextDue.ret,
                    HasQueue |-> Len(rest) > 0])

\* a pop that marks the run it moves as scheduled
createManualRunScheduled(tx, taskID, mRuns) ==
    LET mRun == [mRuns[1] EXCEPT !.Status = "scheduled"]
        rest == Tail(mRuns)
        t1 == [tx EXCEPT !.runs = Put(@, taskManualRunKey(taskID), rest)]
        t2 == [t1 EXCEPT !.runs = Put(@, taskRunKey(taskID, mRun.ID), mRun)]
        schedFor == ScheduledForTime(mRun)
        reqAt == RequestedAtTime(mRun)
        nextDue == nextDueRun(t2, taskID)
    IN IF nextDue.err # NoErr THEN Fail(tx, nextDue.err)
       ELSE Ok(t2, [Created |-> [TaskID |-> taskID, RunID |-> mRun.ID, Now |-> schedFor,
                                 RequestedAt |-> IF reqAt # ZeroTime THEN reqAt ELSE 0],
                    NextDue |-> nextDue.ret,
                    HasQueue |-> Len(rest) > 0])

\* createNextRun with a run queued: lines 960-1025
createManualRun(tx, taskID, mRuns) ==
    LET mRun == mRuns[1]
        rest == Tail(mRuns)
        t1 == [tx EXCEPT !.runs = Put(@, taskManualRunKey(taskID), rest)]
        t2 == [t1 EXCEPT !.runs = Put(@, taskRunKey(taskID, mRun.ID), mRun)]
        schedFor == ScheduledForTime(mRun)
        reqAt == RequestedAtTime(mRun)
        nextDue == nextDueRun(t2, taskID)
    IN IF nextDue.err # NoErr THEN Fail(tx, nextDue.err)
       ELSE Ok(t2, [Created |-> [TaskID |-> taskID, RunID |-> mRun.ID, Now |-> schedFor,
                                 RequestedAt |-> IF reqAt # ZeroTime THEN reqAt ELSE 0],
                    NextDue |-> nextDue.ret,
                    HasQueue |-> Len(rest) > 0])

\* an anchor that never looks at the latest completed run
latestCompletedAnchorCreatedAt(tx, task) == Parse(task.CreatedAt)

\* the anchor of the schedule: lines 1027-1047
latestCompletedAnchor(tx, task) ==
    LET createdAt == Parse(task.CreatedAt)
        lRun == findLatestCompleted(tx, task.ID)
    IN IF lRun.found /\ After(ScheduledForTime(lRun.run), createdAt)
       THEN ScheduledForTime(lRun.run)
       ELSE createdAt

\* the last tick after t that is due at now, the first one if none is
RECURSIVE LatestDueTick(_, _, _, _)
LatestDueTick(sch, offset, t, now) ==
    LET n == CronNext(sch, t)
    IN IF After(OffsetAdd(offset, CronNext(sch, n)), now) THEN n
       ELSE LatestDueTick(sch, offset, n, now)

\* a createNextRun that, with nothing queued, skips to the latest overdue tick
createScheduledRunCatchUp(tx, task, taskID, now, id) ==
    LET latestCompleted == Parse(task.CreatedAt)
        lRun == findLatestCompleted(tx, task.ID)
        anchor == IF lRun.found /\ After(ScheduledForTime(lRun.run), latestCompleted)
                  THEN ScheduledForTime(lRun.run) ELSE latestCompleted
        sch == EffectiveCron(task)
        nextScheduled == LatestDueTick(sch, task.Offset, anchor, now)
        dueAt == OffsetAdd(task.Offset, nextScheduled)
    IN IF After(dueAt, now)
       THEN [Fail(tx, RunNotYetDueError) EXCEPT !.ret = [DueAt |-> dueAt]]
       ELSE LET run == [ID |-> id, TaskID |-> task.ID, Status |-> "scheduled",
                        ScheduledFor |-> Format(nextScheduled), StartedAt |-> Empty,
                        FinishedAt |-> Empty, RequestedAt |-> Empty, Log |-> <<>>]
                t1 == [tx EXCEPT !.runs = Put(@, taskRunKey(taskID, run.ID), run)]
                nextDue == OffsetAdd(task.Offset, CronNext(sch, nextScheduled))
            IN WithID(Ok(t1, [Created |-> [TaskID |-> taskID, RunID |-> id,
                                           Now |-> nextScheduled, RequestedAt |-> 0],
                              NextDue |-> nextDue,
                              HasQueue |-> FALSE]))

\* createNextRun with nothing queued: lines 1027-1109
createScheduledRun(tx, task, taskID, now, id) ==
    LET latestCompleted == latestCompletedAnchor(tx, task)
        sch == EffectiveCron(task)
        nextScheduled == CronNext(sch, latestCompleted)
        dueAt == OffsetAdd(task.Offset, nextScheduled)
    IN IF After(dueAt, now)
       THEN [Fail(tx, RunNotYetDueError) EXCEPT !.ret = [DueAt |-> dueAt]]
       ELSE LET run == [ID |-> id, TaskID |-> task.ID, Status |-> "scheduled",
                        ScheduledFor |-> Format(nextScheduled), StartedAt |-> Empty,
                        FinishedAt |-> Empty, RequestedAt |-> Empty, Log |-> <<>>]
                t1 == [tx EXCEPT !.runs = Put(@, taskRunKey(taskID, run.ID), run)]
                nextDue == OffsetAdd(task.Offset, CronNext(sch, nextScheduled))
            IN WithID(Ok(t1, [Created |-> [TaskID |-> taskID, RunID |-> id,
                                           Now |-> nextScheduled, RequestedAt |-> 0],
                              NextDue |-> nextDue,
                              HasQueue |-> FALSE]))

\* a createNextRun that serves a due tick before the queue
createNextRunTickFirst(tx, taskID, now, id) ==
    LET f == findTaskByID(tx, taskID)
    IN IF f.err # NoErr THEN Fail(tx, f.err)
       ELSE LET m == manualRuns(tx, taskID)
                sched == createScheduledRun(tx, f.ret, taskID, now, id)
            IN IF sched.err = NoErr \/ Len(m.ret) = 0 THEN sched
               ELSE createManualRun(tx, taskID, m.ret)

createNextRun(tx, taskID, now, id) ==
    LET f == findTaskByID(tx, taskID)
    IN IF f.err # NoErr THEN Fail(tx, f.err)
       ELSE LET m == manualRuns(tx, taskID)
            IN IF m.err # NoErr THEN Fail(tx, m.err)
               ELSE IF Len(m.ret) > 0 THEN createManualRun(tx, taskID, m.ret)
               ELSE createScheduledRun(tx, f.ret, taskID, now, id)

\* a finishRun that records only successful runs as the latest completed
finishRunSuccessOnly(tx, taskID, runID) ==
    LET f == findRunByID(tx, taskID, runID)
    IN IF f.err # NoErr THEN Fail(tx, f.err)
       ELSE LET r == f.ret
                rTime == ScheduledForTime(r)
                latestRun == findLatestCompleted(tx, taskID)
                lTime == IF latestRun.found THEN ScheduledForTime(latestRun.run) ELSE ZeroTime
                t1 == IF After(rTime, lTime) /\ r.Status = "success"
                      THEN [tx EXCEPT !.runs = Put(@, taskLatestCompletedKey(taskID), r)]
                      ELSE tx
                t2 == [t1 EXCEPT !.runs = Delete(@, taskRunKey(taskID, runID))]
            IN Ok(t2, r)

finishRun(tx, taskID, runID) ==
    LET f == findRunByID(tx, taskID, runID)
    IN IF f.err # NoErr THEN Fail(tx, f.err)
       ELSE LET r == f.ret
                rTime == ScheduledForTime(r)
                latestRun == findLatestCompleted(tx, taskID)
                lTime == IF latestRun.found THEN ScheduledForTime(latestRun.run) ELSE ZeroTime
                t1 == IF After(rTime, lTime)
                      THEN [tx EXCEPT !.runs = Put(@, taskLatestCompletedKey(taskID), r)]
                      ELSE tx
                t2 == [t1 EXCEPT !.runs = Delete(@, taskRunKey(taskID, runID))]
            IN Ok(t2, r)

RunStatuses == {"scheduled", "started", "success", "failed", "canceled"}

\* an updateRunState that stamps the finish time on every state but started
updateRunStateStamped(tx, taskID, runID, when, state) ==
    LET f == findRunByID(tx, taskID, runID)
    IN IF f.err # NoErr THEN Fail(tx, f.err)
       ELSE LET r1 == [f.ret EXCEPT !.Status = state]
                run == CASE state = "started" -> [r1 EXCEPT !.StartedAt = Format(when)]
                         [] OTHER -> [r1 EXCEPT !.FinishedAt = Format(when)]
            IN Ok([tx EXCEPT !.runs = Put(@, taskRunKey(taskID, run.ID), run)], <<>>)

\* an updateRunState that refuses to start a run that has finished
updateRunStateOrdered(tx, taskID, runID, when, state) ==
    LET f == findRunByID(tx, taskID, runID)
    IN IF f.err # NoErr THEN Fail(tx, f.err)
       ELSE IF state = "started" /\ f.ret.FinishedAt # Empty THEN Fail(tx, ErrRunNotFound)
       ELSE LET r1 == [f.ret EXCEPT !.Status = state]
                run == CASE state = "started" -> [r1 EXCEPT !.StartedAt = Format(when)]
                         [] state \in {"success", "failed", "canceled"} ->
                                [r1 EXCEPT !.FinishedAt = Format(when)]
                         [] OTHER -> r1
            IN Ok([tx EXCEPT !.runs = Put(@, taskRunKey(taskID, run.ID), run)], <<>>)

updateRunState(tx, taskID, runID, when, state) ==
    LET f == findRunByID(tx, taskID, runID)
    IN IF f.err # NoErr THEN Fail(tx, f.err)
       ELSE LET r1 == [f.ret EXCEPT !.Status = state]
                run == CASE state = "started" -> [r1 EXCEPT !.StartedAt = Format(when)]
                         [] state \in {"success", "failed", "canceled"} ->
                                [r1 EXCEPT !.FinishedAt = Format(when)]
                         [] OTHER -> r1
            IN Ok([tx EXCEPT !.runs = Put(@, taskRunKey(taskID, run.ID), run)], <<>>)

\* an addRunLog that puts the new line first
addRunLogFirst(tx, taskID, runID, when, log) ==
    LET f == findRunByID(tx, taskID, runID)
    IN IF f.err # NoErr THEN Fail(tx, f.err)
       ELSE LET l == [Time |-> Format(when), Message |-> log]
                run == [f.ret EXCEPT !.Log = <<l>> \o @]
            IN Ok([tx EXCEPT !.runs = Put(@, taskRunKey(taskID, run.ID), run)], <<>>)

addRunLog(tx, taskID, runID, when, log) ==
    LET f == findRunByID(tx, taskID, runID)
    IN IF f.err # NoErr THEN Fail(tx, f.err)
       ELSE LET l == [Time |-> Format(when), Message |-> log]
                run == [f.ret EXCEPT !.Log = Append(@, l)]
            IN Ok([tx EXCEPT !.runs = Put(@, taskRunKey(taskID, run.ID), run)], <<>>)

----------------------------------------------------------------------------
(* The same operations with a storage step that fails                       *)
(*                                                                          *)
(* failAt names the Put, Delete or read of the operation that fails.  The    *)
(* outcome carries the transaction as it stood when the step failed, and     *)
(* fault says whether the operation got as far as that step.                 *)

Faulted(tx, e) == [err |-> e, tx |-> tx, ret |-> <<>>, gen |-> 0, fault |-> TRUE]
NoFault(res) == [err |-> res.err, tx |-> res.tx, ret |-> res.ret, gen |-> res.gen,
                 fault |-> FALSE]

\* createTask: the Put of the task (434), the Put of the org index (440) or
\* the owner mapping (444) fails
createTaskFailing(tx, orgID, opt, id, now, failAt) ==
    IF orgID \notin Orgs \/ ~opt.ok THEN NoFault(createTask(tx, orgID, opt, id, now))
    ELSE LET task == [ID |-> id, OrganizationID |-> orgID, Status |-> "active",
                      Every |-> opt.Every, Cron |-> opt.Cron, Offset |-> opt.Offset,
                      CreatedAt |-> Format(now), UpdatedAt |-> Empty,
                      LatestCompleted |-> Empty]
             t1 == [tx EXCEPT !.tasks = Put(@, taskKey(id), task)]
             t2 == [t1 EXCEPT !.index = Put(@, taskOrgKey(orgID, id), taskKey(id))]
         IN CASE failAt = "task" -> WithID(Faulted(tx, ErrUnexpectedTaskBucketErr))
              [] failAt = "index" -> WithID(Faulted(t1, ErrUnexpectedTaskBucketErr))
              [] failAt = "owner" -> WithID(Faulted(t2, ErrUnexpectedTaskBucketErr))
              [] OTHER -> NoFault(createTask(tx, orgID, opt, id, now))

\* a deleteTask that logs the failure of a step and goes on
deleteTaskBestEffort(tx, id, failAt) ==
    LET f == findTaskByID(tx, id)
    IN IF f.err # NoErr THEN NoFault(Fail(tx, f.err))
       ELSE LET task == f.ret
                t1 == IF failAt = "index" THEN tx
                      ELSE [tx EXCEPT !.index = Delete(@, taskOrgKey(task.OrganizationID, task.ID))]
                t2 == IF failAt = "pointer" THEN t1
                      ELSE [t1 EXCEPT !.runs = Delete(@, taskLatestCompletedKey(task.ID))]
                runs == findRuns(t2, task.ID).ret
                t3 == IF failAt = "run" THEN t2
                      ELSE [t2 EXCEPT !.runs = deleteRuns(@, task.ID, runs)]
                t4 == IF failAt = "task" THEN t3
                      ELSE [t3 EXCEPT !.tasks = Delete(@, taskKey(task.ID))]
            IN [err |-> NoErr, tx |-> t4, ret |-> <<>>, gen |-> 0,
                fault |-> failAt \in {"index", "pointer", "task"}
                          \/ (failAt = "run" /\ runs # <<>>)]

\* deleteTask: the Delete of the org index (576), of the pointer (586), of the
\* last run (602) or of the task (612) fails
deleteTaskFailing(tx, id, failAt) ==
    LET f == findTaskByID(tx, id)
    IN IF f.err # NoErr THEN NoFault(Fail(tx, f.err))
       ELSE LET task == f.ret
                t1 == [tx EXCEPT !.index = Delete(@, taskOrgKey(task.OrganizationID, task.ID))]
                t2 == [t1 EXCEPT !.runs = Delete(@, taskLatestCompletedKey(task.ID))]
                runs == findRuns(t2, task.ID).ret
                t3 == [t2 EXCEPT !.runs = deleteRuns(@, task.ID, runs)]
            IN CASE failAt = "index" -> Faulted(tx, ErrUnexpectedTaskBucketErr)
                 [] failAt = "pointer" -> Faulted(t1, ErrUnexpectedTaskBucketErr)
                 [] failAt = "run" /\ runs # <<>> ->
                        Faulted([t2 EXCEPT !.runs = deleteRuns(@, task.ID,
                                                      SubSeq(runs, 1, Len(runs) - 1))],
                                ErrUnexpectedTaskBucketErr)
                 [] failAt = "task" -> Faulted(t3, ErrUnexpectedTaskBucketErr)
                 [] OTHER -> NoFault(deleteTask(tx, id))

\* finishRun: the Put of the pointer (1263) or the Delete of the run (1273) fails
finishRunFailing(tx, taskID, runID, failAt) ==
    LET f == findRunByID(tx, taskID, runID)
    IN IF f.err # NoErr THEN NoFault(Fail(tx, f.err))
       ELSE LET r == f.ret
                rTime == ScheduledForTime(r)
                latestRun == findLatestCompleted(tx, taskID)
                lTime == IF latestRun.found THEN ScheduledForTime(latestRun.run) ELSE ZeroTime
                t1 == IF After(rTime, lTime)
                      THEN [tx EXCEPT !.runs = Put(@, taskLatestCompletedKey(taskID), r)]
                      ELSE tx
            IN CASE failAt = "pointer" /\ After(rTime, lTime) -> Faulted(tx, ErrUnexpectedTaskBucketErr)
                 [] failAt = "run" -> Faulted(t1, ErrUnexpectedTaskBucketErr)
                 [] OTHER -> NoFault(finishRun(tx, taskID, runID))

\* createNextRun with a run queued: the Put of the queue (978), the Put of the
\* run (992) or the read of the task in nextDueRun (1007) fails
createNextRunFailing(tx, taskID, now, id, failAt) ==
    LET f == findTaskByID(tx, taskID)
        m == manualRuns(tx, taskID)
    IN IF f.err # NoErr \/ m.err # NoErr \/ Len(m.ret) = 0
       THEN NoFault(createNextRun(tx, taskID, now, id))
       ELSE LET mRun == m.ret[1]
                t1 == [tx EXCEPT !.runs = Put(@, taskManualRunKey(taskID), Tail(m.ret))]
                t2 == [t1 EXCEPT !.runs = Put(@, taskRunKey(taskID, mRun.ID), mRun)]
            IN CASE failAt = "queue" -> Faulted(tx, ErrUnexpectedTaskBucketErr)
                 [] failAt = "run" -> Faulted(t1, ErrUnexpectedTaskBucketErr)
                 [] failAt = "nextDue" -> Faulted(t2, ErrUnexpectedTaskBucketErr)
                 [] OTHER -> NoFault(createNextRun(tx, taskID, now, id))

----------------------------------------------------------------------------
(* Channels and goroutines *)

MaxFiles == 3     \* len(filenames) of makeThubnails4
MaxCallers == 3   \* the number of goroutines that call a singleton accessor

Files == 1..MaxFiles
HostNames == <<"www.baidu.com", "www.google.com", "www.taobao.com">>
Hosts == 1..Len(HostNames)
NoResponse == ""
Callers == 1..MaxCallers
NoCaller == 0
NilSingle == 0    \* the nil *Single

\* what imageFile may return as its error
ImageErr == "imageFile: error"
ImageResults == {NoErr, ImageErr}

\* make(chan T, cap)
MakeChan(cap) == [cap |-> cap, buf |-> <<>>]

\* a send that never waits, whatever the capacity
CanSendAlways(ch, receiving) == TRUE

\* ch <- v can proceed: a buffered channel has room, an unbuffered one has
\* a goroutine waiting at its receive and no value handed over yet
CanSend(ch, receiving) ==
    IF ch.cap = 0 THEN receiving /\ ch.buf = <<>> ELSE Len(ch.buf) < ch.cap

\* a send that puts its value at the head of the buffer
ChanSendFirst(ch, v) == [ch EXCEPT !.buf = <<v>> \o @]

ChanSend(ch, v) == [ch EXCEPT !.buf = Append(@, v)]

\* <-ch can proceed
CanRecv(ch) == ch.buf # <<>>

ChanRecv(ch) == [ch EXCEPT !.buf = Tail(@)]

----------------------------------------------------------------------------
(* The state machine *)

\* the options a task script can carry
Options ==
    {[ok |-> TRUE, Every |-> IF k = "every" THEN p ELSE 0,
      Cron |-> IF k = "cron" THEN p ELSE 0, Offset |-> o] :
        k \in Kinds, p \in Periods, o \in Offsets}
    \cup {[ok |-> FALSE, Every |-> 0, Cron |-> 0, Offset |-> 0]}

\* the run IDs a caller can name
RunArgs == (1..(nextID - 1)) \ known

Init ==
    /\ taskB = <<>>
    /\ runB = <<>>
    /\ indexB = <<>>
    /\ urm = {}
    /\ nextID = 1
    /\ clock = 0
    /\ known = {}
    /\ writes = 0
    /\ ticks = <<>>
    /\ finished = {}
    /\ workers = [w \in Workers |-> [state |-> "idle", task |-> 0, arg |-> 0,
                                      err |-> NoErr, id |-> 0]]
    /\ last = [op |-> "init", task |-> 0, run |-> 0, arg |-> 0,
               err |-> NoErr, ret |-> <<>>, gen |-> 0, pre |-> Tx]
    /\ errors = MakeChan(0)
    /\ thumbWorkers = [f \in Files |-> [pc |-> "idle", err |-> NoErr]]
    /\ thumbMain = [pc |-> "idle", next |-> 1, received |-> 0, ret |-> NoErr]
    /\ responses = MakeChan(0)
    /\ senders = [h \in Hosts |-> [pc |-> "idle", response |-> NoResponse]]
    /\ query = [pc |-> "idle", next |-> 1, ret |-> NoResponse]
    /\ sent = <<>>
    /\ single1 = NilSingle
    /\ single4 = NilSingle
    /\ single5 = NilSingle
    /\ mux = NoCaller
    /\ mux1 = NoCaller
    /\ once = [done |-> FALSE, m |-> NoCaller]
    /\ allocs = <<>>
    /\ callers = [c \in Callers |-> [fn |-> 0, pc |-> "idle", ret |-> NilSingle]]

\* the call returns: the transaction commits or rolls back, the generator advances;
\* t, r and a are the task, the run and the other argument of the call (0: none)
Return(op, t, r, a, res) ==
    LET tx == Update(Tx, res)
    IN /\ taskB' = tx.tasks
       /\ runB' = tx.runs
       /\ indexB' = tx.index
       /\ urm' = tx.urm
       /\ nextID' = nextID + res.gen
       /\ last' = [op |-> op, task |-> t, run |-> r, arg |-> a,
                   err |-> res.err, ret |-> res.ret, gen |-> res.gen, pre |-> Tx]

Tick ==
    /\ clock < MaxTime
    /\ clock' = clock + 1
    /\ UNCHANGED <<goVars, taskB, runB, indexB, urm, nextID, known, writes, ticks, finished, workers, last>>

CreateTask(orgID, opt) ==
    /\ LET res == createTask(Tx, orgID, opt, nextID, clock)
       IN /\ Return("CreateTask", 0, 0, orgID, res)
          /\ known' = IF res.err = NoErr THEN known \cup {nextID} ELSE known
    /\ UNCHANGED <<goVars, clock, writes, ticks, finished, workers>>

DeleteTask(t) ==
    /\ Return("DeleteTask", t, 0, 0, deleteTask(Tx, t))
    /\ UNCHANGED <<goVars, clock, known, writes, ticks, finished, workers>>

FindRunByID(t, r) ==
    /\ Return("FindRunByID", t, r, 0, findRunByID(Tx, t, r))
    /\ UNCHANGED <<goVars, clock, known, writes, ticks, finished, workers>>

CancelRun(t, r) ==
    /\ LET res == cancelRun(Tx, t, r)
       IN /\ Return("CancelRun", t, r, 0, res)
          /\ writes' = IF res.err = NoErr THEN writes + 1 ELSE writes
    /\ UNCHANGED <<goVars, clock, known, ticks, finished, workers>>

RetryRun(t, r) ==
    /\ Return("RetryRun", t, r, 0, retryRun(Tx, t, r, nextID))
    /\ UNCHANGED <<goVars, clock, known, writes, ticks, finished, workers>>

ForceRun(t, scheduledFor) ==
    /\ Return("ForceRun", t, 0, scheduledFor, forceRun(Tx, t, scheduledFor, nextID, clock))
    /\ UNCHANGED <<goVars, clock, known, writes, ticks, finished, workers>>

CreateNextRun(t, now) ==
    /\ LET res == createNextRun(Tx, t, now, nextID)
       IN /\ Return("CreateNextRun", t, 0, now, res)
          /\ ticks' = IF res.err = NoErr /\ res.gen = 1
                      THEN Append(ticks, [task |-> t, scheduledFor |-> res.ret.Created.Now,
                                          idle |-> currentlyRunning(Tx, t).ret = <<>>])
                      ELSE ticks
    /\ UNCHANGED <<goVars, clock, known, writes, finished, workers>>

FinishRun(t, r) ==
    /\ LET res == finishRun(Tx, t, r)
       IN /\ Return("FinishRun", t, r, 0, res)
          /\ finished' = IF res.err = NoErr
                         THEN finished \cup {<<t, ScheduledForTime(res.ret)>>}
                         ELSE finished
    /\ UNCHANGED <<goVars, clock, known, writes, ticks, workers>>

UpdateRunState(t, r, state) ==
    /\ LET res == updateRunState(Tx, t, r, clock, state)
       IN /\ Return("UpdateRunState", t, r, state, res)
          /\ writes' = IF res.err = NoErr THEN writes + 1 ELSE writes
    /\ UNCHANGED <<goVars, clock, known, ticks, finished, workers>>

AddRunLog(t, r, msg) ==
    /\ LET res == addRunLog(Tx, t, r, clock, msg)
       IN /\ Return("AddRunLog", t, r, msg, res)
          /\ writes' = IF res.err = NoErr THEN writes + 1 ELSE writes
    /\ UNCHANGED <<goVars, clock, known, ticks, finished, workers>>

FindTaskByID(t) ==
    /\ Return("FindTaskByID", t, 0, 0, findTaskByID(Tx, t))
    /\ UNCHANGED <<goVars, clock, known, writes, ticks, finished, workers>>

UpdateTask(t, upd) ==
    /\ Return("UpdateTask", t, 0, upd, updateTask(Tx, t, upd, clock))
    /\ UNCHANGED <<goVars, clock, known, writes, ticks, finished, workers>>

FindTasks(filter) ==
    /\ Return("FindTasks", 0, 0, filter, findTasks(Tx, filter))
    /\ UNCHANGED <<goVars, clock, known, writes, ticks, finished, workers>>

CurrentlyRunning(t) ==
    /\ Return("CurrentlyRunning", t, 0, 0, currentlyRunning(Tx, t))
    /\ UNCHANGED <<goVars, clock, known, writes, ticks, finished, workers>>

NextDueRun(t) ==
    /\ Return("NextDueRun", t, 0, 0, nextDueRun(Tx, t))
    /\ UNCHANGED <<goVars, clock, known, writes, ticks, finished, workers>>

\* a worker calls ForceRun: the call waits for the store's write transaction
CallForceRun(w, t, scheduledFor) ==
    /\ workers[w].state = "idle"
    /\ workers' = [workers EXCEPT ![w] = [state |-> "waiting", task |-> t,
                                          arg |-> scheduledFor, err |-> NoErr, id |-> 0]]
    /\ UNCHANGED <<goVars, taskB, runB, indexB, urm, nextID, clock, known, writes, ticks, finished, last>>

\* the store runs the worker's transaction, alone, and the call returns
RunForceRun(w) ==
    /\ workers[w].state = "waiting"
    /\ LET res == forceRun(Tx, workers[w].task, workers[w].arg, nextID, clock)
       IN /\ Return("ForceRun", workers[w].task, 0, workers[w].arg, res)
          /\ workers' = [workers EXCEPT ![w].state = "done", ![w].err = res.err,
                                        ![w].id = IF res.err = NoErr THEN res.ret.ID ELSE 0]
    /\ UNCHANGED <<goVars, clock, known, writes, ticks, finished>>

\* the calls during which a storage step fails
CreateTaskFault(orgID, opt, failAt) ==
    /\ LET res == createTaskFailing(Tx, orgID, opt, nextID, clock, failAt)
       IN res.fault /\ Return("CreateTaskFault", 0, 0, failAt, res)
    /\ UNCHANGED <<goVars, clock, known, writes, ticks, finished, workers>>

DeleteTaskFault(t, failAt) ==
    /\ LET res == deleteTaskFailing(Tx, t, failAt)
       IN res.fault /\ Return("DeleteTaskFault", t, 0, failAt, res)
    /\ UNCHANGED <<goVars, clock, known, writes, ticks, finished, workers>>

FinishRunFault(t, r, failAt) ==
    /\ LET res == finishRunFailing(Tx, t, r, failAt)
       IN res.fault /\ Return("FinishRunFault", t, r, failAt, res)
    /\ UNCHANGED <<goVars, clock, known, writes, ticks, finished, workers>>

CreateNextRunFault(t, now, failAt) ==
    /\ LET res == createNextRunFailing(Tx, t, now, nextID, failAt)
       IN res.fault /\ Return("CreateNextRunFault", t, 0, failAt, res)
    /\ UNCHANGED <<goVars, clock, known, writes, ticks, finished, workers>>

\* the bounds of the model: identifiers left, tasks left, lifecycle writes left
HasID == nextID <= MaxID
HasTask == Cardinality(known) < MaxTasks
HasWrite == writes < MaxWrites

Next ==
    \/ Tick
    \/ HasID /\ HasTask /\ \E o \in Orgs \cup {NoOrg}, opt \in Options : CreateTask(o, opt)
    \/ \E t \in known : DeleteTask(t)
    \/ \E t \in known, r \in RunArgs : FindRunByID(t, r)
    \/ HasWrite /\ \E t \in known, r \in RunArgs : CancelRun(t, r)
    \/ HasID /\ \E t \in known, r \in RunArgs : RetryRun(t, r)
    \/ HasID /\ \E t \in known, s \in 0..MaxTime : ForceRun(t, s)
    \/ HasID /\ \E t \in known : CreateNextRun(t, clock)
    \/ \E t \in known, r \in RunArgs : FinishRun(t, r)
    \/ HasWrite /\ \E t \in known, r \in RunArgs, s \in RunStatuses : UpdateRunState(t, r, s)
    \/ HasWrite /\ \E t \in known, r \in RunArgs : AddRunLog(t, r, "m")

Spec == Init /\ [][Next]_vars

----------------------------------------------------------------------------
(* The manual queue alone: forced and retried runs of one task, with more    *)
(* identifiers and no lifecycle calls.                                      *)

MaxQueueID == 5    \* the ID generator is asked for at most MaxQueueID identifiers

HasQueueID == nextID <= MaxQueueID

NextQueue ==
    \/ Tick
    \/ HasQueueID /\ HasTask /\ \E o \in Orgs, opt \in Options : CreateTask(o, opt)
    \/ HasQueueID /\ \E t \in known, r \in RunArgs : RetryRun(t, r)
    \/ HasQueueID /\ \E t \in known, s \in 0..MaxTime : ForceRun(t, s)
    \/ HasQueueID /\ \E t \in known : CreateNextRun(t, clock)

SpecQueue == Init /\ [][NextQueue]_vars

----------------------------------------------------------------------------
(* The latest-completed pointer alone: runs are forced, started and finished, *)
(* and a run can be forced for any time, the zero time included               *)
(* (time.Unix(-62135596800, 0) is time.Time{}).                               *)

NextPointer ==
    \/ Tick
    \/ HasID /\ HasTask /\ \E o \in Orgs, opt \in Options : CreateTask(o, opt)
    \/ HasID /\ \E t \in known, s \in ZeroTime..MaxTime : ForceRun(t, s)
    \/ HasID /\ \E t \in known : CreateNextRun(t, clock)
    \/ \E t \in known, r \in RunArgs : FinishRun(t, r)

SpecPointer == Init /\ [][NextPointer]_vars

----------------------------------------------------------------------------
(* The derived latest-completed field: the same calls, and the task is read  *)
(* between them.                                                             *)

NextDerived ==
    \/ Tick
    \/ HasID /\ HasTask /\ \E o \in Orgs, opt \in Options : CreateTask(o, opt)
    \/ HasID /\ \E t \in known, s \in ZeroTime..MaxTime : ForceRun(t, s)
    \/ HasID /\ \E t \in known : CreateNextRun(t, clock)
    \/ \E t \in known, r \in RunArgs : FinishRun(t, r)
    \/ \E t \in known : FindTaskByID(t)

SpecDerived == Init /\ [][NextDerived]_vars

----------------------------------------------------------------------------
(* Storage failures: tasks are created and deleted, runs forced, started and *)
(* finished, and any of these calls may meet a storage step that fails.      *)

\* the storage steps that can fail
Steps == {"task", "index", "owner", "pointer", "run", "queue", "nextDue"}

NextFault ==
    \/ Tick
    \/ HasID /\ HasTask /\ \E o \in Orgs, opt \in Options : CreateTask(o, opt)
    \/ HasID /\ \E t \in known, s \in 0..MaxTime : ForceRun(t, s)
    \/ HasID /\ \E t \in known : CreateNextRun(t, clock)
    \/ \E t \in known, r \in RunArgs : FinishRun(t, r)
    \/ \E t \in known : DeleteTask(t)
    \/ HasID /\ HasTask /\ \E o \in Orgs, opt \in Options, k \in Steps :
           CreateTaskFault(o, opt, k)
    \/ \E t \in known, k \in Steps : DeleteTaskFault(t, k)
    \/ \E t \in known, r \in RunArgs, k \in Steps : FinishRunFault(t, r, k)
    \/ \E t \in known, k \in Steps : CreateNextRunFault(t, clock, k)

SpecFault == Init /\ [][NextFault]_vars

----------------------------------------------------------------------------
(* Concurrent callers of ForceRun: every worker makes one call, the calls    *)
(* overlap, and the store runs their transactions one at a time.             *)

NextForce ==
    \/ Tick
    \/ HasTask /\ \E o \in Orgs, opt \in Options : CreateTask(o, opt)
    \/ \E w \in Workers, t \in known, s \in 0..MaxTime : CallForceRun(w, t, s)
    \/ \E w \in Workers : RunForceRun(w)

SpecForce == Init /\ [][NextForce]_vars

----------------------------------------------------------------------------
(* The scheduler keeps calling CreateNextRun for every task while runs are   *)
(* forced and retried.                                                       *)

MaxLiveID == 4    \* the ID generator is asked for at most MaxLiveID identifiers

HasLiveID == nextID <= MaxLiveID

\* the scheduler's call for task t, while the generator has identifiers left
ScheduleRun(t) == CreateNextRun(t, clock) /\ nextID' <= MaxLiveID + 1

NextLive ==
    \/ Tick
    \/ HasLiveID /\ HasTask /\ \E o \in Orgs, opt \in Options : CreateTask(o, opt)
    \/ HasLiveID /\ \E t \in known, r \in RunArgs : RetryRun(t, r)
    \/ HasLiveID /\ \E t \in known, s \in 0..MaxTime : ForceRun(t, s)
    \/ \E t \in known : ScheduleRun(t)

\* weak fairness of the scheduler's call for task t, its enabling condition
\* written out: the call changes the state whenever t's queue is not empty
\* (serving the head draws no identifier), so WF_vars(ScheduleRun(t)) implies it
FairScheduleRun(t) ==
    []<>(manualRuns(Tx, t).ret = <<>>) \/ []<><<ScheduleRun(t)>>_vars

SpecLive == Init /\ [][NextLive]_vars /\ \A t \in 1..MaxLiveID : FairScheduleRun(t)

----------------------------------------------------------------------------
(* The life of a run: runs are forced and created, their state is set more   *)
(* than once and log lines are added.                                        *)

MaxUpdates == 2    \* at most MaxUpdates UpdateRunState and AddRunLog calls succeed

HasUpdate == writes < MaxUpdates

NextLifecycle ==
    \/ Tick
    \/ HasID /\ HasTask /\ \E o \in Orgs, opt \in Options : CreateTask(o, opt)
    \/ HasID /\ \E t \in known, s \in 0..MaxTime : ForceRun(t, s)
    \/ HasID /\ \E t \in known : CreateNextRun(t, clock)
    \/ HasUpdate /\ \E t \in known, r \in RunArgs, s \in RunStatuses : UpdateRunState(t, r, s)
    \/ HasUpdate /\ \E t \in known, r \in RunArgs : AddRunLog(t, r, "m")

SpecLifecycle == Init /\ [][NextLifecycle]_vars

----------------------------------------------------------------------------
(* The log of a run: a task with one schedule, whose runs are logged to,     *)
(* have their state set and are canceled.                                   *)

MaxLogWrites == 3    \* at most MaxLogWrites AddRunLog, UpdateRunState and CancelRun calls succeed

HasLogWrite == writes < MaxLogWrites

\* the log lines a caller writes
Messages == {"a", "b"}

\* the one script the task of this specification is created with
LogOptions == {o \in Options : o.ok /\ o.Every = 1 /\ o.Offset = 0}

NextLog ==
    \/ Tick
    \/ HasID /\ HasTask /\ \E o \in Orgs, opt \in LogOptions : CreateTask(o, opt)
    \/ HasID /\ \E t \in known, s \in {0} : ForceRun(t, s)
    \/ HasID /\ \E t \in known : CreateNextRun(t, clock)
    \/ HasLogWrite /\ \E t \in known, r \in RunArgs, s \in {"started", "success"} :
           UpdateRunState(t, r, s)
    \/ HasLogWrite /\ \E t \in known, r \in RunArgs : CancelRun(t, r)
    \/ HasLogWrite /\ \E t \in known, r \in RunArgs, m \in Messages : AddRunLog(t, r, m)

SpecLog == Init /\ [][NextLog]_vars

----------------------------------------------------------------------------
(* The task store: tasks of two organizations are created, read, updated and *)
(* deleted, and every call may name any ID, that of a task that never        *)
(* existed or was deleted included.                                          *)

MaxTaskID == 2    \* the ID generator is asked for at most MaxTaskID identifiers
MaxStored == 2    \* CreateTask succeeds at most MaxStored times

HasTaskID == nextID <= MaxTaskID
HasStored == Cardinality(known) < MaxStored

\* the IDs a caller can name
TaskArgs == 1..MaxTaskID

\* the scripts of this specification: two schedules and one FromScript rejects
TaskOptions ==
    {o \in Options : \/ ~o.ok
                     \/ o.Every = 1 /\ o.Offset = 0
                     \/ o.Cron = 2 /\ o.Offset = 1}

\* the updates of this specification: one of a script, one of the status
Updates ==
    {[hasFlux |-> TRUE, opt |-> o, Status |-> ""] : o \in TaskOptions}
    \cup {[hasFlux |-> FALSE, opt |-> o, Status |-> "inactive"] : o \in {o \in Options : ~o.ok}}

NextTasks ==
    \/ Tick
    \/ HasTaskID /\ HasStored /\ \E o \in Orgs \cup {NoOrg}, opt \in TaskOptions : CreateTask(o, opt)
    \/ \E t \in TaskArgs : FindTaskByID(t)
    \/ \E t \in TaskArgs, upd \in Updates : UpdateTask(t, upd)
    \/ \E t \in TaskArgs : DeleteTask(t)
    \/ \E t \in TaskArgs : NextDueRun(t)
    \/ HasTaskID /\ \E t \in TaskArgs, s \in {0} : ForceRun(t, s)
    \/ HasTaskID /\ \E t \in TaskArgs : CreateNextRun(t, clock)

SpecTasks == Init /\ [][NextTasks]_vars

----------------------------------------------------------------------------
(* Listing: tasks of two organizations are created and deleted, and listed   *)
(* by organization or by owner, page by page.                                *)

MaxFindID == 3    \* the ID generator is asked for at most MaxFindID identifiers

HasFindID == nextID <= MaxFindID

\* the page sizes asked for: the ends of the valid range, its neighbours and small pages
Limits == {-1, 0, 1, 2, TaskDefaultPageSize, TaskMaxPageSize + 1}

\* the filters asked for: an organization that exists, one that does not
\* (the ID after those of Orgs) or none; after a task ID or none; the one user or none
Filters ==
    [OrganizationID : Orgs \cup {NoOrg, Cardinality(Orgs) + 1},
     After : {NoID} \cup (1..MaxFindID),
     Limit : Limits,
     User : {NoID}]
    \cup [OrganizationID : {NoOrg, 1}, After : {NoID}, Limit : {-1, 0, 1}, User : {1}]

NextFind ==
    \/ HasFindID /\ \E o \in Orgs, opt \in LogOptions : CreateTask(o, opt)
    \/ \E t \in known : DeleteTask(t)
    \/ \E f \in Filters : FindTasks(f)

SpecFind == Init /\ [][NextFind]_vars

----------------------------------------------------------------------------
(* Two tasks side by side: both have runs forced, served, finished, retried,  *)
(* changed and listed, and either task may be deleted.                        *)

MaxPairID == 4    \* the ID generator is asked for at most MaxPairID identifiers
MaxPair == 2      \* CreateTask succeeds at most MaxPair times
MaxPairTime == 1  \* the clock of the two tasks stops at MaxPairTime

HasPairID == nextID <= MaxPairID
HasPair == Cardinality(known) < MaxPair

NextPair ==
    \/ clock < MaxPairTime /\ Tick
    \/ HasPairID /\ HasPair /\ \E o \in Orgs, opt \in LogOptions : CreateTask(o, opt)
    \/ HasPairID /\ \E t \in known, s \in {0} : ForceRun(t, s)
    \/ HasPairID /\ \E t \in known, r \in RunArgs : RetryRun(t, r)
    \/ HasPairID /\ \E t \in known : CreateNextRun(t, clock)
    \/ \E t \in known, r \in RunArgs : FinishRun(t, r)
    \/ HasWrite /\ \E t \in known, r \in RunArgs : UpdateRunState(t, r, "started")
    \/ HasWrite /\ \E t \in known, r \in RunArgs : AddRunLog(t, r, "a")
    \/ HasWrite /\ \E t \in known, r \in RunArgs : CancelRun(t, r)
    \/ \E t \in known : DeleteTask(t)
    \/ \E t \in known : CurrentlyRunning(t)

SpecPair == Init /\ [][NextPair]_vars

----------------------------------------------------------------------------
(* makeThubnails4 (src/src/xgboost/test.go, lines 103-123): one goroutine    *)
(* per filename sends the error of imageFile on the channel errors, and the   *)
(* caller receives until the first error that is not nil.  The source makes   *)
(* the channel unbuffered (line 104); the comment at lines 125-126 names the  *)
(* repair, a channel buffered to len(filenames).  The call takes the          *)
(* capacity as its input so that both programs are behaviours of the model.   *)

ErrorsCaps == {0, MaxFiles}

\* errors := make(chan error), and the loop of go statements begins
MakeThubnails4(cap) ==
    /\ thumbMain.pc = "idle"
    /\ errors' = MakeChan(cap)
    /\ thumbMain' = [thumbMain EXCEPT !.pc = "go"]
    /\ UNCHANGED <<thumbWorkers, storeVars, queryVars, singleVars>>

\* go func(f string) {...}(f), for the next filename
GoThumbWorker ==
    /\ thumbMain.pc = "go"
    /\ thumbWorkers' = [thumbWorkers EXCEPT ![thumbMain.next].pc = "imageFile"]
    /\ thumbMain' = [thumbMain EXCEPT !.next = @ + 1,
                                      !.pc = IF thumbMain.next = MaxFiles THEN "recv" ELSE "go"]
    /\ UNCHANGED <<errors, storeVars, queryVars, singleVars>>

\* _, err := imageFile(f)
ImageFile(f, err) ==
    /\ thumbWorkers[f].pc = "imageFile"
    /\ thumbWorkers' = [thumbWorkers EXCEPT ![f] = [pc |-> "send", err |-> err]]
    /\ UNCHANGED <<errors, thumbMain, storeVars, queryVars, singleVars>>

\* errors <- err, after which the goroutine ends
SendError(f) ==
    /\ thumbWorkers[f].pc = "send"
    /\ CanSend(errors, thumbMain.pc = "recv")
    /\ errors' = ChanSend(errors, thumbWorkers[f].err)
    /\ thumbWorkers' = [thumbWorkers EXCEPT ![f].pc = "done"]
    /\ UNCHANGED <<thumbMain, storeVars, queryVars, singleVars>>

\* one turn of the loop "for range filenames": err := <-errors, return err
\* if it is not nil, return nil after len(filenames) turns
ReceiveError ==
    /\ thumbMain.pc = "recv"
    /\ CanRecv(errors)
    /\ errors' = ChanRecv(errors)
    /\ thumbMain' =
          LET err == Head(errors.buf)
          IN IF err # NoErr THEN [thumbMain EXCEPT !.pc = "returned", !.ret = err]
             ELSE IF thumbMain.received + 1 = MaxFiles
                  THEN [thumbMain EXCEPT !.pc = "returned", !.received = @ + 1]
             ELSE [thumbMain EXCEPT !.received = @ + 1]
    /\ UNCHANGED <<thumbWorkers, storeVars, queryVars, singleVars>>

NextThumbs ==
    \/ \E cap \in ErrorsCaps : MakeThubnails4(cap)
    \/ GoThumbWorker
    \/ \E f \in Files, err \in ImageResults : ImageFile(f, err)
    \/ \E f \in Files : SendError(f)
    \/ ReceiveError

\* the scheduler runs every goroutine that can take a step
FairThumbs ==
    /\ WF_vars(GoThumbWorker)
    /\ WF_vars(ReceiveError)
    /\ \A f \in Files : WF_vars(\E err \in ImageResults : ImageFile(f, err))
    /\ \A f \in Files : WF_vars(SendError(f))

SpecThumbs == Init /\ [][NextThumbs]_vars /\ FairThumbs

----------------------------------------------------------------------------
(* mirroredQuery (src/src/channels/bufferchannel.go, lines 23-34): three      *)
(* goroutines send the response of their request on the channel responses,    *)
(* and the caller returns the first response it receives.  The source makes   *)
(* the channel with capacity 3 (line 24); the comment at line 21 describes    *)
(* the unbuffered channel.  The call takes the capacity as its input so that  *)
(* both programs are behaviours of the model.                                 *)

ResponsesCaps == {0, Len(HostNames)}

\* func request(hostname string) (response string)
request(hostname) == hostname

\* responses := make(chan string, 3), and the go statements begin
MirroredQuery(cap) ==
    /\ query.pc = "idle"
    /\ responses' = MakeChan(cap)
    /\ query' = [query EXCEPT !.pc = "go"]
    /\ UNCHANGED <<senders, sent, storeVars, thumbVars, singleVars>>

\* go func() { responses <- request(...) }(), the next of the three
GoSender ==
    /\ query.pc = "go"
    /\ senders' = [senders EXCEPT ![query.next].pc = "request"]
    /\ query' = [query EXCEPT !.next = @ + 1,
                              !.pc = IF query.next = Len(HostNames) THEN "recv" ELSE "go"]
    /\ UNCHANGED <<responses, sent, storeVars, thumbVars, singleVars>>

\* request(hostname) returns
Request(h) ==
    /\ senders[h].pc = "request"
    /\ senders' = [senders EXCEPT ![h] = [pc |-> "send", response |-> request(HostNames[h])]]
    /\ UNCHANGED <<responses, query, sent, storeVars, thumbVars, singleVars>>

\* responses <- response, after which the goroutine ends
SendResponse(h) ==
    /\ senders[h].pc = "send"
    /\ CanSend(responses, query.pc = "recv")
    /\ responses' = ChanSend(responses, senders[h].response)
    /\ senders' = [senders EXCEPT ![h].pc = "done"]
    /\ sent' = Append(sent, senders[h].response)
    /\ UNCHANGED <<query, storeVars, thumbVars, singleVars>>

\* return <-responses
ReceiveResponse ==
    /\ query.pc = "recv"
    /\ CanRecv(responses)
    /\ responses' = ChanRecv(responses)
    /\ query' = [query EXCEPT !.pc = "returned", !.ret = Head(responses.buf)]
    /\ UNCHANGED <<senders, sent, storeVars, thumbVars, singleVars>>

NextQuery ==
    \/ \E cap \in ResponsesCaps : MirroredQuery(cap)
    \/ GoSender
    \/ \E h \in Hosts : Request(h)
    \/ \E h \in Hosts : SendResponse(h)
    \/ ReceiveResponse

\* the scheduler runs every goroutine that can take a step
FairQuery ==
    /\ WF_vars(GoSender)
    /\ WF_vars(ReceiveResponse)
    /\ \A h \in Hosts : WF_vars(Request(h))
    /\ \A h \in Hosts : WF_vars(SendResponse(h))

SpecQuery == Init /\ [][NextQuery]_vars /\ FairQuery

----------------------------------------------------------------------------
(* Package singleton (src/src/profiling/test.go, lines 54-104).  Each caller  *)
(* is a goroutine that calls one accessor once; a step is one access to a     *)
(* package variable, a mutex or the Once.  A *Single is nil or the number of  *)
(* the allocation that made it.  The checks at lines 58 and 86 read their     *)
(* variable without synchronisation: such a read sees the variable's value    *)
(* or the nil it held before a write that races with the read.                *)

Accessors == {1, 2, 4, 5}

\* what an unsynchronised read of a pointer holding v may see
RacyRead(v) == {v, NilSingle}

\* new(Single), by accessor fn: the pointer to the next allocation
NewSingle == Len(allocs) + 1

At(c, fn, pc) == callers[c].fn = fn /\ callers[c].pc = pc
Goto(c, pc) == callers' = [callers EXCEPT ![c].pc = pc]

\* a goroutine calls accessor fn
CallGetInstance(c, fn) ==
    /\ callers[c].pc = "idle"
    /\ callers' = [callers EXCEPT ![c] =
                      [fn |-> fn, ret |-> NilSingle,
                       pc |-> CASE fn = 1 -> "check" [] fn = 2 -> "lock"
                                [] fn = 4 -> "check" [] fn = 5 -> "once"]]
    /\ UNCHANGED <<single1, single4, single5, mux, mux1, once, allocs>>
    /\ UNCHANGED <<storeVars, thumbVars, queryVars>>

\* GetInstance1, line 58: if single1 == nil
Check1(c, seen) ==
    /\ At(c, 1, "check")
    /\ seen \in RacyRead(single1)
    /\ Goto(c, IF seen = NilSingle THEN "new" ELSE "return")
    /\ UNCHANGED <<single1, single4, single5, mux, mux1, once, allocs>>
    /\ UNCHANGED <<storeVars, thumbVars, queryVars>>

\* GetInstance1, line 59: single1 = new(Single)
New1(c) ==
    /\ At(c, 1, "new")
    /\ single1' = NewSingle
    /\ allocs' = Append(allocs, 1)
    /\ Goto(c, "return")
    /\ UNCHANGED <<single4, single5, mux, mux1, once>>
    /\ UNCHANGED <<storeVars, thumbVars, queryVars>>

\* GetInstance1, line 61, and GetInstance2, line 73: return single1
ReturnSingle1(c) ==
    /\ At(c, 1, "return") \/ At(c, 2, "return")
    /\ callers' = [callers EXCEPT ![c].pc = "done", ![c].ret = single1]
    /\ UNCHANGED <<single1, single4, single5, mux, mux1, once, allocs>>
    /\ UNCHANGED <<storeVars, thumbVars, queryVars>>

\* GetInstance2, line 68: mux.Lock()
Lock2(c) ==
    /\ At(c, 2, "lock")
    /\ mux = NoCaller
    /\ mux' = c
    /\ Goto(c, "check")
    /\ UNCHANGED <<single1, single4, single5, mux1, once, allocs>>
    /\ UNCHANGED <<storeVars, thumbVars, queryVars>>

\* GetInstance2, line 69: if single1 == nil (the variable of GetInstance1)
Check2(c) ==
    /\ At(c, 2, "check")
    /\ Goto(c, IF single1 = NilSingle THEN "new" ELSE "unlock")
    /\ UNCHANGED <<single1, single4, single5, mux, mux1, once, allocs>>
    /\ UNCHANGED <<storeVars, thumbVars, queryVars>>

\* GetInstance2, line 70: single1 = new(Single)
New2(c) ==
    /\ At(c, 2, "new")
    /\ single1' = NewSingle
    /\ allocs' = Append(allocs, 2)
    /\ Goto(c, "unlock")
    /\ UNCHANGED <<single4, single5, mux, mux1, once>>
    /\ UNCHANGED <<storeVars, thumbVars, queryVars>>

\* GetInstance2, line 72: mux.Unlock()
Unlock2(c) ==
    /\ At(c, 2, "unlock")
    /\ mux' = NoCaller
    /\ Goto(c, "return")
    /\ UNCHANGED <<single1, single4, single5, mux1, once, allocs>>
    /\ UNCHANGED <<storeVars, thumbVars, queryVars>>

\* GetInstance4, line 86: if single4 == nil, outside the lock
Check4(c, seen) ==
    /\ At(c, 4, "check")
    /\ seen \in RacyRead(single4)
    /\ Goto(c, IF seen = NilSingle THEN "lock" ELSE "return")
    /\ UNCHANGED <<single1, single4, single5, mux, mux1, once, allocs>>
    /\ UNCHANGED <<storeVars, thumbVars, queryVars>>

\* GetInstance4, line 87: mux1.Lock()
Lock4(c) ==
    /\ At(c, 4, "lock")
    /\ mux1 = NoCaller
    /\ mux1' = c
    /\ Goto(c, "recheck")
    /\ UNCHANGED <<single1, single4, single5, mux, once, allocs>>
    /\ UNCHANGED <<storeVars, thumbVars, queryVars>>

\* GetInstance4, line 88: if single4 == nil, inside the lock
Recheck4(c) ==
    /\ At(c, 4, "recheck")
    /\ Goto(c, IF single4 = NilSingle THEN "new" ELSE "unlock")
    /\ UNCHANGED <<single1, single4, single5, mux, mux1, once, allocs>>
    /\ UNCHANGED <<storeVars, thumbVars, queryVars>>

\* GetInstance4, line 89: single4 = new(Single)
New4(c) ==
    /\ At(c, 4, "new")
    /\ single4' = NewSingle
    /\ allocs' = Append(allocs, 4)
    /\ Goto(c, "unlock")
    /\ UNCHANGED <<single1, single5, mux, mux1, once>>
    /\ UNCHANGED <<storeVars, thumbVars, queryVars>>

\* GetInstance4, line 91: mux1.Unlock()
Unlock4(c) ==
    /\ At(c, 4, "unlock")
    /\ mux1' = NoCaller
    /\ Goto(c, "return")
    /\ UNCHANGED <<single1, single4, single5, mux, once, allocs>>
    /\ UNCHANGED <<storeVars, thumbVars, queryVars>>

\* GetInstance4, line 93: return single4
ReturnSingle4(c) ==
    /\ At(c, 4, "return")
    /\ callers' = [callers EXCEPT ![c].pc = "done", ![c].ret = single4]
    /\ UNCHANGED <<single1, single4, single5, mux, mux1, once, allocs>>
    /\ UNCHANGED <<storeVars, thumbVars, queryVars>>

\* GetInstance5, line 100: once.Do(f) reads the flag of the Once and is over
\* if f has been run
OnceDo(c) ==
    /\ At(c, 5, "once")
    /\ Goto(c, IF once.done THEN "return" ELSE "onceLock")
    /\ UNCHANGED <<single1, single4, single5, mux, mux1, once, allocs>>
    /\ UNCHANGED <<storeVars, thumbVars, queryVars>>

\* once.Do(f) takes the mutex of the Once and looks at the flag again
OnceLock(c) ==
    /\ At(c, 5, "onceLock")
    /\ once.m = NoCaller
    /\ once' = [once EXCEPT !.m = c]
    /\ Goto(c, IF once.done THEN "onceUnlock" ELSE "onceRun")
    /\ UNCHANGED <<single1, single4, single5, mux, mux1, allocs>>
    /\ UNCHANGED <<storeVars, thumbVars, queryVars>>

\* GetInstance5, line 101: single5 = &Single{}, the function given to Do
OnceRun(c) ==
    /\ At(c, 5, "onceRun")
    /\ single5' = NewSingle
    /\ allocs' = Append(allocs, 5)
    /\ Goto(c, "onceDone")
    /\ UNCHANGED <<single1, single4, mux, mux1, once>>
    /\ UNCHANGED <<storeVars, thumbVars, queryVars>>

\* once.Do(f) sets the flag when f has returned
OnceDone(c) ==
    /\ At(c, 5, "onceDone")
    /\ once' = [once EXCEPT !.done = TRUE]
    /\ Goto(c, "onceUnlock")
    /\ UNCHANGED <<single1, single4, single5, mux, mux1, allocs>>
    /\ UNCHANGED <<storeVars, thumbVars, queryVars>>

\* once.Do(f) releases the mutex of the Once and returns
OnceUnlock(c) ==
    /\ At(c, 5, "onceUnlock")
    /\ once' = [once EXCEPT !.m = NoCaller]
    /\ Goto(c, "return")
    /\ UNCHANGED <<single1, single4, single5, mux, mux1, allocs>>
    /\ UNCHANGED <<storeVars, thumbVars, queryVars>>

\* GetInstance5, line 103: return single5
ReturnSingle5(c) ==
    /\ At(c, 5, "return")
    /\ callers' = [callers EXCEPT ![c].pc = "done", ![c].ret = single5]
    /\ UNCHANGED <<single1, single4, single5, mux, mux1, once, allocs>>
    /\ UNCHANGED <<storeVars, thumbVars, queryVars>>

NextSingle ==
    \/ \E c \in Callers, fn \in Accessors : CallGetInstance(c, fn)
    \/ \E c \in Callers, seen \in {NilSingle} \cup (1..MaxCallers) : Check1(c, seen)
    \/ \E c \in Callers : New1(c)
    \/ \E c \in Callers : ReturnSingle1(c)
    \/ \E c \in Callers : Lock2(c)
    \/ \E c \in Callers : Check2(c)
    \/ \E c \in Callers : New2(c)
    \/ \E c \in Callers : Unlock2(c)
    \/ \E c \in Callers, seen \in {NilSingle} \cup (1..MaxCallers) : Check4(c, seen)
    \/ \E c \in Callers : Lock4(c)
    \/ \E c \in Callers : Recheck4(c)
    \/ \E c \in Callers : New4(c)
    \/ \E c \in Callers : Unlock4(c)
    \/ \E c \in Callers : ReturnSingle4(c)
    \/ \E c \in Callers : OnceDo(c)
    \/ \E c \in Callers : OnceLock(c)
    \/ \E c \in Callers : OnceRun(c)
    \/ \E c \in Callers : OnceDone(c)
    \/ \E c \in Callers : OnceUnlock(c)
    \/ \E c \in Callers : ReturnSingle5(c)

SpecSingle == Init /\ [][NextSingle]_vars

----------------------------------------------------------------------------
(* Properties *)

\* the queued and currently-running runs of task t
QueuedRuns(t) == manualRuns(Tx, t).ret
RunningRuns(t) == currentlyRunning(Tx, t).ret

\* the manual queue of the last call's task before the call
PreQueue == manualRuns(last.pre, last.task).ret

\* C1: no two runs created on the scheduled path for one task have the same
\* scheduledFor, whatever CreateNextRun and FinishRun calls were made.
NoDuplicateTicks ==
    \A i \in 1..Len(ticks), j \in 1..Len(ticks) :
        i < j /\ ticks[i].task = ticks[j].task
            => ticks[i].scheduledFor # ticks[j].scheduledFor

\* C2: for every task and every scheduledFor value, at most one run with that
\* value is in the union of the task's manual queue and its currently-running
\* partition.
UniqueScheduledFor ==
    \A t \in known :
        LET all == QueuedRuns(t) \o RunningRuns(t)
        IN \A i \in 1..Len(all), j \in 1..Len(all) :
               i < j => all[i].ScheduledFor # all[j].ScheduledFor

\* C3: a successful CreateNextRun on a task whose manual queue is non-empty
\* returns the head of the queue (its ID, its scheduledFor as Now), draws no new
\* run ID and stores no run record but the head's.
ManualRunPriority ==
    (last.op = "CreateNextRun" /\ last.err = NoErr /\ PreQueue # <<>>) =>
        LET head == PreQueue[1]
        IN /\ last.ret.Created.RunID = head.ID
           /\ last.ret.Created.Now = Parse(head.ScheduledFor)
           /\ last.gen = 0
           /\ DOMAIN runB = DOMAIN last.pre.runs \cup {taskRunKey(last.task, head.ID)}
           /\ runB[taskRunKey(last.task, head.ID)] = head

\* a tick of the last call's task was due at the call's now, before the call
TickWasDue ==
    LET f == findTaskByID(last.pre, last.task)
    IN /\ f.err = NoErr
       /\ ~After(OffsetAdd(f.ret.Offset,
                           CronNext(EffectiveCron(f.ret), latestCompletedAnchor(last.pre, f.ret))),
                 last.arg)

\* C3 happens: CreateNextRun returned a queued run while a tick was due
ManualRunPriorityWitness ==
    /\ last.op = "CreateNextRun"
    /\ last.err = NoErr
    /\ PreQueue # <<>>
    /\ TickWasDue

\* the run the last call named, as stored before the call
PreRunKey == taskRunKey(last.task, last.run)
PreRunExists == PreRunKey \in DOMAIN last.pre.runs

\* C4: a ForceRun(T, t) issued while an entry forced for the same t is still in
\* the manual queue fails with RunAlreadyQueued (Conflict), leaves the queue
\* unchanged, and exactly one queued run with that scheduledFor exists afterwards.
DedupOnForce ==
    (/\ last.op = "ForceRun"
     /\ \E i \in 1..Len(PreQueue) :
            /\ PreQueue[i].RequestedAt # Empty
            /\ PreQueue[i].ScheduledFor = Format(last.arg))
    => /\ last.err = ErrTaskRunAlreadyQueued
       /\ Code(last.err) = "EConflict"
       /\ QueuedRuns(last.task) = PreQueue
       /\ Cardinality({i \in 1..Len(QueuedRuns(last.task)) :
                          QueuedRuns(last.task)[i].ScheduledFor = Format(last.arg)}) = 1

\* C5: after a successful DeleteTask(T) no key with T's prefix is left in the
\* run keyspace, the task record is gone and no org-index entry names T.
CascadeDeleteComplete ==
    (last.op = "DeleteTask" /\ last.err = NoErr) =>
        /\ \A k \in DOMAIN runB : ~HasPrefix(k, taskKey(last.task))
        /\ taskKey(last.task) \notin DOMAIN taskB
        /\ \A k \in DOMAIN indexB : indexB[k] # taskKey(last.task)

\* the IDs of the task and run records of a store
RECURSIVE SeqIDs(_)
SeqIDs(runs) == IF runs = <<>> THEN {} ELSE {Head(runs).ID} \cup SeqIDs(Tail(runs))
StoreIDs(tx) ==
    UNION {IF k[Len(k)] = ManualRunsSuffix THEN SeqIDs(tx.runs[k]) ELSE {tx.runs[k].ID} :
              k \in DOMAIN tx.runs}
    \cup {tx.tasks[k].ID : k \in DOMAIN tx.tasks}

\* C6: a successful RetryRun(T, R) returns a run with a fresh ID, with empty
\* status, startedAt, finishedAt and requestedAt, and with R's taskID and
\* scheduledFor; the record stored under T/R is the same before and after.
RetryIndependence ==
    (last.op = "RetryRun" /\ last.err = NoErr) =>
        LET R == last.pre.runs[PreRunKey]
        IN /\ last.ret.ID # last.run
           /\ last.ret.ID \notin StoreIDs(last.pre)
           /\ last.ret.Status = ""
           /\ last.ret.StartedAt = Empty
           /\ last.ret.FinishedAt = Empty
           /\ last.ret.RequestedAt = Empty
           /\ last.ret.TaskID = R.TaskID
           /\ last.ret.ScheduledFor = R.ScheduledFor
           /\ PreRunKey \in DOMAIN runB
           /\ runB[PreRunKey] = R

\* C6 happens: a run with execution fields set was retried
RetryIndependenceWitness ==
    /\ last.op = "RetryRun"
    /\ last.err = NoErr
    /\ last.pre.runs[PreRunKey].RequestedAt # Empty

\* C7: RetryRun(T, R) on a run R of T's currently-running partition succeeds
\* and leaves the manual queue equal to the queue before with the clone
\* appended, whatever the queue was before -- a queue key never written included.
RetryEnqueues ==
    (last.op = "RetryRun" /\ PreRunExists) =>
        /\ last.err = NoErr
        /\ QueuedRuns(last.task) = Append(PreQueue, last.ret)

\* C8: after a successful CancelRun(T, R), FindRunByID(T, R) and
\* CurrentlyRunning(T) yield R with status canceled and its other fields
\* unchanged.
CancelTakesEffect ==
    (last.op = "CancelRun" /\ last.err = NoErr) =>
        LET f == findRunByID(Tx, last.task, last.run)
            canceled == [last.pre.runs[PreRunKey] EXCEPT !.Status = "canceled"]
        IN /\ f.err = NoErr
           /\ f.ret = canceled
           /\ \E i \in 1..Len(RunningRuns(last.task)) : RunningRuns(last.task)[i] = canceled

\* C9: FindRunByID, UpdateRunState, AddRunLog, CancelRun, FinishRun and
\* RetryRun on a run that is not in the task's currently-running partition fail
\* with RunNotFound, a NotFound-kind error, and leave the store as it was.
RunNotFoundHandling ==
    (/\ last.op \in {"FindRunByID", "UpdateRunState", "AddRunLog",
                     "CancelRun", "FinishRun", "RetryRun"}
     /\ ~PreRunExists)
    => /\ last.err = ErrRunNotFound
       /\ Code(last.err) = "ENotFound"
       /\ Tx = last.pre

\* the n-th cron tick after t0
RECURSIVE TickAfter(_, _, _)
TickAfter(sch, t0, n) == IF n = 0 THEN t0 ELSE CronNext(sch, TickAfter(sch, t0, n - 1))

\* the runs created on the scheduled path for task t
TicksOf(t) == SelectSeq(ticks, LAMBDA e : e.task = t)

\* C10: when every run returned by CreateNextRun is finished before the next
\* scheduled run is created, the scheduledFor values of the runs created on the
\* scheduled path are the consecutive cron ticks after the task's creation time,
\* whatever forced or retried runs were queued, run and finished in between.
NoTickSkipped ==
    \A t \in known :
        (/\ taskKey(t) \in DOMAIN taskB
         /\ \A i \in 1..Len(TicksOf(t)) : TicksOf(t)[i].idle)
        => \A i \in 1..Len(TicksOf(t)) :
               TicksOf(t)[i].scheduledFor =
                   TickAfter(EffectiveCron(taskB[taskKey(t)]),
                             Parse(taskB[taskKey(t)].CreatedAt), i)

----------------------------------------------------------------------------
(* The scheduled path of CreateNextRun *)

\* the task of the last call, as stored before the call
PreTaskExists == taskKey(last.task) \in DOMAIN last.pre.tasks
PreTask == last.pre.tasks[taskKey(last.task)]

\* the latest-completed pointer of the last call's task before the call
PrePointerKey == taskLatestCompletedKey(last.task)
PrePointerExists == PrePointerKey \in DOMAIN last.pre.runs

\* the later of the task's created-at and the pointer's scheduledFor
PreAnchor ==
    LET createdAt == Parse(PreTask.CreatedAt)
        pointed == IF PrePointerExists THEN Parse(last.pre.runs[PrePointerKey].ScheduledFor)
                   ELSE createdAt
    IN IF pointed > createdAt THEN pointed ELSE createdAt

\* the first tick strictly after the anchor, and when it is due
PreTick == CronNext(EffectiveCron(PreTask), PreAnchor)
PreDueAt == PreTick + PreTask.Offset

\* the last call was a CreateNextRun of an existing task with nothing queued
ScheduledPath == last.op = "CreateNextRun" /\ PreTaskExists /\ PreQueue = <<>>

\* the run keys of a run bucket: the keys without a reserved suffix
RunKeys(b) == {k \in DOMAIN b : ~HasReservedSuffix(k)}

NotYetDue ==
    /\ (ScheduledPath /\ PreDueAt > last.arg) =>
           /\ last.err = RunNotYetDueError
           /\ last.ret.DueAt = PreDueAt
           /\ last.gen = 0
           /\ Tx = last.pre
    /\ (ScheduledPath /\ PreDueAt = last.arg) =>
           /\ last.err = NoErr
           /\ RunKeys(runB) # RunKeys(last.pre.runs)

\* C12 happens: a tick that has passed is not yet due because of the offset
NotYetDueWitness ==
    /\ ScheduledPath
    /\ last.err = RunNotYetDueError
    /\ PreTick <= last.arg
    /\ PreDueAt = last.arg + 1

\* C13: a CreateNextRun call adds at most one run to the currently-running
\* partition, and on the scheduled path the run it adds is for the first tick
\* after the anchor, however many ticks are overdue.
SingleTick ==
    /\ last.op = "CreateNextRun" =>
           Cardinality(RunKeys(runB) \ RunKeys(last.pre.runs)) <= 1
    /\ (ScheduledPath /\ last.err = NoErr) =>
           /\ Cardinality(RunKeys(runB) \ RunKeys(last.pre.runs)) = 1
           /\ \A k \in RunKeys(runB) \ RunKeys(last.pre.runs) :
                  runB[k].ScheduledFor = Format(PreTick)
           /\ last.ret.Created.Now = PreTick

\* C13 happens: a run was created while two ticks or more were overdue
SingleTickWitness ==
    /\ ScheduledPath
    /\ last.err = NoErr
    /\ CronNext(EffectiveCron(PreTask), PreTick) + PreTask.Offset <= last.arg

----------------------------------------------------------------------------
(* The latest-completed pointer *)

\* the scheduledFor of the pointer of the last call's task before the call
PrePointerTime ==
    IF PrePointerExists THEN Parse(last.pre.runs[PrePointerKey].ScheduledFor) ELSE ZeroTime

\* C14: FinishRun(T, R) on a run stored under T/R succeeds, returns R and
\* removes the key T/R; it stores R as T's latest-completed pointer if R's
\* scheduledFor is strictly later than the pointer's (the zero time for no
\* pointer) and leaves the pointer as it was otherwise, whatever R's status;
\* no other key changes.
FinishRunSemantics ==
    (last.op = "FinishRun" /\ PreRunExists) =>
        LET R == last.pre.runs[PreRunKey]
        IN /\ last.err = NoErr
           /\ last.ret = R
           /\ PreRunKey \notin DOMAIN runB
           /\ IF Parse(R.ScheduledFor) > PrePointerTime
              THEN PrePointerKey \in DOMAIN runB /\ runB[PrePointerKey] = R
              ELSE /\ PrePointerKey \in DOMAIN runB <=> PrePointerExists
                   /\ PrePointerExists => runB[PrePointerKey] = last.pre.runs[PrePointerKey]
           /\ DOMAIN runB \ {PrePointerKey} = DOMAIN last.pre.runs \ {PreRunKey, PrePointerKey}
           /\ \A k \in DOMAIN runB \ {PrePointerKey} : runB[k] = last.pre.runs[k]
           /\ taskB = last.pre.tasks
           /\ indexB = last.pre.index

\* C14 happens: a failed run later than the pointer was finished
FinishRunSemanticsWitness ==
    /\ last.op = "FinishRun"
    /\ PreRunExists
    /\ last.pre.runs[PreRunKey].Status = "failed"
    /\ Parse(last.pre.runs[PreRunKey].ScheduledFor) > PrePointerTime

\* a run as late as the pointer, or older, was finished
FinishRunNotLater ==
    /\ last.op = "FinishRun"
    /\ PreRunExists
    /\ PrePointerExists
    /\ Parse(last.pre.runs[PreRunKey].ScheduledFor) <= PrePointerTime

\* the scheduledFor values of the runs of task t finished so far
FinishedTimes(t) == {p[2] : p \in {q \in finished : q[1] = t}}

\* C15: for every existing task, the latest-completed pointer is absent iff no
\* run of the task has been finished, and otherwise its scheduledFor is the
\* maximum scheduledFor of the runs of the task finished so far.
LatestCompletedIsMax ==
    \A t \in known :
        taskKey(t) \in DOMAIN taskB =>
            LET key == taskLatestCompletedKey(t)
            IN /\ key \notin DOMAIN runB <=> FinishedTimes(t) = {}
               /\ key \in DOMAIN runB =>
                      /\ Parse(runB[key].ScheduledFor) \in FinishedTimes(t)
                      /\ \A x \in FinishedTimes(t) : x <= Parse(runB[key].ScheduledFor)

----------------------------------------------------------------------------
(* Atomicity *)

FaultOps == {"CreateTaskFault", "DeleteTaskFault", "FinishRunFault", "CreateNextRunFault"}

\* C16: a DeleteTask, CreateTask, FinishRun or queue-serving CreateNextRun that
\* meets a failing storage step returns an error, and the committed buckets
\* and owner mappings are those before the call.
AtomicOnFailure ==
    last.op \in FaultOps =>
        /\ last.err # NoErr
        /\ Tx = last.pre

\* the transaction of the last call as it stood when its step failed
PartialTx ==
    CASE last.op = "DeleteTaskFault" -> deleteTaskFailing(last.pre, last.task, last.arg).tx
      [] last.op = "FinishRunFault" ->
             finishRunFailing(last.pre, last.task, last.run, last.arg).tx
      [] OTHER -> last.pre

\* C16 happens: a DeleteTask failed after it had deleted the org-index entry,
\* the pointer and a run
AtomicOnFailureWitness ==
    /\ last.op = "DeleteTaskFault"
    /\ last.arg = "task"
    /\ PartialTx.index # last.pre.index
    /\ PrePointerExists
    /\ RunKeys(PartialTx.runs) # RunKeys(last.pre.runs)

----------------------------------------------------------------------------
(* Concurrent ForceRun *)

\* the workers whose ForceRun(t, s) has returned, and those of them it served
Returned(t, s) ==
    {w \in Workers : workers[w].state = "done" /\ workers[w].task = t /\ workers[w].arg = s}
Served(t, s) == {w \in Returned(t, s) : workers[w].err = NoErr}

\* the positions of t's queue that hold a run scheduled for s
QueuedFor(t, s) == {i \in 1..Len(QueuedRuns(t)) : QueuedRuns(t)[i].ScheduledFor = Format(s)}

\* C17: of the concurrent ForceRun(T, t) calls that have returned, exactly one
\* succeeded and every other failed with RunAlreadyQueued, and the queue holds
\* exactly one entry scheduled for t, the one the successful call returned; so
\* calls with distinct t all succeed and none of their entries is lost.
ConcurrentForceRun ==
    \A t \in known, s \in 0..MaxTime :
        Returned(t, s) # {} =>
            /\ Cardinality(Served(t, s)) = 1
            /\ \A w \in Returned(t, s) \ Served(t, s) :
                   /\ workers[w].err = ErrTaskRunAlreadyQueued
                   /\ Code(workers[w].err) = "EConflict"
            /\ Cardinality(QueuedFor(t, s)) = 1
            /\ \A w \in Served(t, s) :
                   \A i \in QueuedFor(t, s) : QueuedRuns(t)[i].ID = workers[w].id

\* C17 happens: every worker has returned, two of them from calls for the same
\* time and one from a call for another time
ConcurrentForceRunWitness ==
    /\ \A w \in Workers : workers[w].state = "done"
    /\ \E t \in known, s \in 0..MaxTime : Cardinality(Returned(t, s)) >= 2
    /\ \E t \in known, s1 \in 0..MaxTime, s2 \in 0..MaxTime :
           s1 # s2 /\ Returned(t, s1) # {} /\ Returned(t, s2) # {}

----------------------------------------------------------------------------
(* The manual queue *)

\* the IDs of a sequence of runs, in order
IDsOf(runs) == [i \in 1..Len(runs) |-> runs[i].ID]

\* C18: ForceRun and RetryRun append the run they return at the tail of the
\* queue, CreateNextRun removes the head and returns it, and a call that fails
\* or finds the queue empty leaves the queue as it was; every queue is in the
\* order in which its runs were appended (the order of their IDs), and the run
\* served was appended before every run still queued.
QueueIsFIFO ==
    /\ \A t \in known :
           \A i \in 1..Len(QueuedRuns(t)), j \in 1..Len(QueuedRuns(t)) :
               i < j => QueuedRuns(t)[i].ID < QueuedRuns(t)[j].ID
    /\ last.op \in {"ForceRun", "RetryRun"} =>
           QueuedRuns(last.task) =
               IF last.err = NoErr THEN Append(PreQueue, last.ret) ELSE PreQueue
    /\ last.op = "CreateNextRun" =>
           IF last.err = NoErr /\ PreQueue # <<>>
           THEN /\ QueuedRuns(last.task) = Tail(PreQueue)
                /\ last.ret.Created.RunID = Head(PreQueue).ID
                /\ runB[taskRunKey(last.task, Head(PreQueue).ID)] = Head(PreQueue)
                /\ \A i \in 1..Len(QueuedRuns(last.task)) :
                       Head(PreQueue).ID < QueuedRuns(last.task)[i].ID
           ELSE QueuedRuns(last.task) = PreQueue

\* C18 happens: the head of a queue of a forced run and a retried run was served
QueueIsFIFOWitness ==
    /\ last.op = "CreateNextRun"
    /\ last.err = NoErr
    /\ Len(PreQueue) >= 2
    /\ \E i \in 1..Len(PreQueue) : PreQueue[i].RequestedAt = Empty
    /\ \E i \in 1..Len(PreQueue) : PreQueue[i].RequestedAt # Empty

\* run id is queued for some task; run id is in some task's currently-running partition
InQueue(id) == \E t \in known : \E i \in 1..Len(QueuedRuns(t)) : QueuedRuns(t)[i].ID = id
IsRunning(id) == \E t \in known : taskRunKey(t, id) \in DOMAIN runB

\* C19: while the scheduler keeps calling CreateNextRun, every run in a manual
\* queue is eventually in the currently-running partition; each successful call
\* on a non-empty queue serves the head and moves every other entry up by one.
NoStarvation ==
    /\ \A id \in 1..MaxLiveID : InQueue(id) ~> IsRunning(id)
    /\ []((last.op = "CreateNextRun" /\ last.err = NoErr /\ PreQueue # <<>>) =>
             /\ IsRunning(Head(PreQueue).ID)
             /\ IDsOf(QueuedRuns(last.task)) = Tail(IDsOf(PreQueue)))

\* the forced and retried runs in the currently-running partition of task t
ServedRuns(t) == SelectSeq(RunningRuns(t), LAMBDA r : r.Status = "")

\* C19 happens: a queue of two was served to the end while a tick was overdue
NoStarvationWitness ==
    /\ last.op = "CreateNextRun"
    /\ last.err = NoErr
    /\ Len(PreQueue) = 1
    /\ QueuedRuns(last.task) = <<>>
    /\ Len(ServedRuns(last.task)) >= 2
    /\ TickWasDue

----------------------------------------------------------------------------
(* The state of a run *)

\* the last call was an UpdateRunState of a run stored under T/R, made now, and
\* it had the effects C20 tells
UpdateRunStateDone ==
    (last.op = "UpdateRunState" /\ PreRunExists) =>
        LET R == last.pre.runs[PreRunKey]
            state == last.arg
        IN /\ last.err = NoErr
           /\ DOMAIN runB = DOMAIN last.pre.runs
           /\ \A k \in DOMAIN runB \ {PreRunKey} : runB[k] = last.pre.runs[k]
           /\ taskB = last.pre.tasks
           /\ indexB = last.pre.index
           /\ runB[PreRunKey].Status = state
           /\ runB[PreRunKey].StartedAt =
                  IF state = "started" THEN Format(clock) ELSE R.StartedAt
           /\ runB[PreRunKey].FinishedAt =
                  IF state \in {"success", "failed", "canceled"} THEN Format(clock)
                  ELSE R.FinishedAt
           /\ runB[PreRunKey].ScheduledFor = R.ScheduledFor
           /\ runB[PreRunKey].RequestedAt = R.RequestedAt
           /\ runB[PreRunKey].Log = R.Log
           /\ runB[PreRunKey].ID = R.ID
           /\ runB[PreRunKey].TaskID = R.TaskID

\* C20: a step that is a call of UpdateRunState(T, R, when, state) on a run
\* stored under T/R (when being the time of the call) succeeds and stores R
\* with status = state, startedAt = when if state is started and as it was
\* otherwise, finishedAt = when if state is success, failed or canceled and as
\* it was otherwise, and every other field as it was; no other key changes.
UpdateRunStateEffects == [][last' # last => UpdateRunStateDone']_vars

\* C20 happens: a forced run with a start or finish time was set back to
\* scheduled
UpdateRunStateEffectsWitness ==
    /\ last.op = "UpdateRunState"
    /\ PreRunExists
    /\ last.arg = "scheduled"
    /\ last.pre.runs[PreRunKey].RequestedAt # Empty
    /\ \/ last.pre.runs[PreRunKey].FinishedAt # Empty
       \/ last.pre.runs[PreRunKey].StartedAt # Empty

\* a started run was set to success at a later time
UpdateRunStateSuccess ==
    /\ last.op = "UpdateRunState"
    /\ PreRunExists
    /\ last.arg = "success"
    /\ last.pre.runs[PreRunKey].StartedAt # Empty
    /\ runB[PreRunKey].FinishedAt # last.pre.runs[PreRunKey].StartedAt

\* a run with a log line had its state set
UpdateRunStateLogged ==
    /\ last.op = "UpdateRunState"
    /\ PreRunExists
    /\ last.pre.runs[PreRunKey].Log # <<>>

----------------------------------------------------------------------------
(* The log of a run *)

\* the last call, made now, left the log of every stored run as C21 tells:
\* a successful AddRunLog(T, R, now, msg) added the line (now, msg) at the end
\* of R's log, and no other call and no other run's log changed
RunLogDone ==
    \A k \in RunKeys(last.pre.runs) :
        /\ k \in DOMAIN runB
        /\ runB[k].Log =
               IF last.op = "AddRunLog" /\ last.err = NoErr /\ k = PreRunKey
               THEN Append(last.pre.runs[k].Log,
                           [Time |-> Format(clock), Message |-> last.arg])
               ELSE last.pre.runs[k].Log

\* C21: the run log is append-only: a successful AddRunLog(T, R, when, msg)
\* extends R's log by the one entry (when, msg) at the end, and UpdateRunState
\* and CancelRun leave every log as it was, so that every earlier log is a
\* prefix of every later one.  (Every step but a tick of the clock is a call.)
RunLogAppendOnly == [][clock' = clock => RunLogDone']_vars

\* C21 happens: a line was added to the log of a run that already had a
\* different line and that CancelRun had been called on
RunLogAppendOnlyWitness ==
    /\ last.op = "AddRunLog"
    /\ last.err = NoErr
    /\ Len(runB[PreRunKey].Log) = 2
    /\ runB[PreRunKey].Log[1] # runB[PreRunKey].Log[2]
    /\ PreRunKey \in DOMAIN taskB
    /\ taskB[PreRunKey].Status = "canceled"

----------------------------------------------------------------------------
(* Tasks that do not exist *)

\* the calls that begin by reading the task record
TaskReadingOps == {"FindTaskByID", "UpdateTask", "DeleteTask", "CreateNextRun", "NextDueRun"}

\* C22: when no task record is stored for T, FindTaskByID, UpdateTask,
\* DeleteTask, CreateNextRun and NextDueRun of T fail with the task-not-found
\* error and leave the store as it was, whatever is stored in the run keyspace
\* under T's prefix.
TaskNotFoundHandling ==
    (last.op \in TaskReadingOps /\ ~PreTaskExists) =>
        /\ last.err = ErrTaskNotFound
        /\ last.gen = 0
        /\ Tx = last.pre

\* C22 happens: CreateNextRun was called for an ID that has no task record
\* and has a run queued under its prefix
TaskNotFoundHandlingWitness ==
    /\ last.op = "CreateNextRun"
    /\ ~PreTaskExists
    /\ PreQueue # <<>>

\* UpdateTask and DeleteTask were called for a task that had been deleted
TaskNotFoundAfterDelete ==
    /\ last.op \in {"UpdateTask", "DeleteTask"}
    /\ ~PreTaskExists
    /\ last.task \in known

----------------------------------------------------------------------------
(* The derived latest-completed field *)

\* the last call was a FindTaskByID that returned the task
TaskRead == last.op = "FindTaskByID" /\ last.err = NoErr

\* FindTaskByID returns the pointer's scheduledFor when there is a pointer and
\* the task's created-at when no run of the task has been finished
DerivedFromPointer ==
    TaskRead =>
        /\ PrePointerExists =>
               last.ret.LatestCompleted = last.pre.runs[PrePointerKey].ScheduledFor
        /\ FinishedTimes(last.task) = {} => last.ret.LatestCompleted = PreTask.CreatedAt

\* FindTaskByID writes nothing: the stored record does not get the derived field
ReadLeavesStore ==
    TaskRead =>
        /\ Tx = last.pre
        /\ taskB[taskKey(last.task)].LatestCompleted = Empty

\* C23: FindTaskByID(T) returns latestCompleted equal to the scheduledFor of
\* T's latest-completed pointer when there is one and to T's created-at when
\* no run of T has been finished, so that after any FinishRun calls it is the
\* maximum finished scheduledFor; the read does not modify the stored record.
DerivedLatestCompleted ==
    /\ DerivedFromPointer
    /\ ReadLeavesStore
    /\ (TaskRead /\ FinishedTimes(last.task) # {}) =>
           /\ Parse(last.ret.LatestCompleted) \in FinishedTimes(last.task)
           /\ \A s \in FinishedTimes(last.task) : s <= Parse(last.ret.LatestCompleted)

\* the task was read after runs for two different times were finished
DerivedAfterTwoRuns ==
    /\ TaskRead
    /\ Cardinality(FinishedTimes(last.task)) = 2
    /\ PrePointerExists

----------------------------------------------------------------------------
(* Listing tasks *)

\* the last call was a FindTasks by organization, without a user
ListedByOrg ==
    /\ last.op = "FindTasks"
    /\ last.arg.User = NoID
    /\ last.arg.OrganizationID # NoOrg

\* the page size rules, for the last call
PageSizeChecked ==
    /\ last.arg.Limit < 0 => last.err = ErrPageSizeTooSmall
    /\ last.arg.Limit > TaskMaxPageSize => last.err = ErrPageSizeTooLarge
    /\ last.arg.Limit = 0 =>
           LET res == findTasks(last.pre, [last.arg EXCEPT !.Limit = TaskDefaultPageSize])
           IN last.err = res.err /\ last.ret = res.ret

\* C24: FindTasks by organization or by user with Limit < 0 fails with
\* PageSizeTooSmall and with Limit > MaxPageSize fails with PageSizeTooLarge,
\* whatever is stored and whether or not the organization of the filter
\* exists, and Limit = 0 behaves as Limit = the default page size.
PageSizeValidation ==
    (/\ last.op = "FindTasks"
     /\ last.arg.OrganizationID # NoOrg \/ last.arg.User # NoID) => PageSizeChecked

\* the page size rules hold of every FindTasks whose filter names an
\* organization that exists, or a user
PageSizeValidationKnownOrg ==
    (/\ last.op = "FindTasks"
     /\ last.arg.OrganizationID \in Orgs \/ last.arg.User # NoID
     /\ last.arg.OrganizationID \in Orgs \cup {NoOrg}) => PageSizeChecked

\* the task IDs of organization org in the order of the org index
OrgTaskIDs(tx, org) ==
    LET ks == SelectSeq(SortedKeys(DOMAIN tx.index), LAMBDA k : k[1] = org)
    IN [i \in 1..Len(ks) |-> IDFromValue(tx.index[ks[i]])]

\* the IDs of a list of tasks
TaskIDs(ts) == [i \in 1..Len(ts) |-> ts[i].ID]

\* the page of at most p of ids that follows after (that begins ids if after is none)
PageAfter(ids, after, p) ==
    LET start == IF after = NoID THEN 0
                 ELSE CHOOSE i \in 1..Len(ids) : ids[i] = after
        end == IF start + p <= Len(ids) THEN start + p ELSE Len(ids)
    IN SubSeq(ids, start + 1, end)

\* C25: FindTasks by organization O with page size p returns, without after,
\* the first min(p, n) of O's n tasks in org-index order, and with after = the
\* ID of a task of O the tasks that follow it, p at most; so the pages, each
\* asked for after the last task of the one before, hold every task of O once.
PaginationComplete ==
    LET ids == OrgTaskIDs(last.pre, last.arg.OrganizationID)
        p == IF last.arg.Limit = 0 THEN TaskDefaultPageSize ELSE last.arg.Limit
    IN (/\ ListedByOrg
        /\ last.arg.OrganizationID \in Orgs
        /\ last.arg.Limit \in 0..TaskMaxPageSize
        /\ last.arg.After = NoID \/ \E i \in 1..Len(ids) : ids[i] = last.arg.After) =>
           /\ last.err = NoErr
           /\ TaskIDs(last.ret) = PageAfter(ids, last.arg.After, p)

\* the same, for pages of two tasks or more of an organization that has a task
PaginationOfLargerPages ==
    LET ids == OrgTaskIDs(last.pre, last.arg.OrganizationID)
        p == IF last.arg.Limit = 0 THEN TaskDefaultPageSize ELSE last.arg.Limit
    IN (/\ ListedByOrg
        /\ last.arg.OrganizationID \in Orgs
        /\ last.arg.Limit \in {0} \cup (2..TaskMaxPageSize)
        /\ Len(ids) > 0
        /\ last.arg.After = NoID \/ \E i \in 1..Len(ids) : ids[i] = last.arg.After) =>
           /\ last.err = NoErr
           /\ TaskIDs(last.ret) = PageAfter(ids, last.arg.After, p)

\* a first page of one task was asked for and two tasks were returned
PageOfOneOverrun ==
    /\ ListedByOrg
    /\ last.arg.Limit = 1
    /\ last.arg.After = NoID
    /\ Len(last.ret) = 2

\* a second page was returned: the last of three tasks, after a page of two
SecondPage ==
    /\ ListedByOrg
    /\ last.arg.Limit = 2
    /\ Len(OrgTaskIDs(last.pre, last.arg.OrganizationID)) = 3
    /\ last.arg.After = OrgTaskIDs(last.pre, last.arg.OrganizationID)[2]
    /\ Len(last.ret) = 1

\* C26: FindTasks by organization O, without a user, returns only tasks of O,
\* whatever the org index holds; it returns none when O has no task, or none
\* after the given ID, and an organization with a larger ID has one.
OrgIsolation ==
    (ListedByOrg /\ last.err = NoErr) =>
        \A i \in 1..Len(last.ret) : last.ret[i].OrganizationID = last.arg.OrganizationID

\* only tasks of O are returned when O has a task or an after is given
OrgIsolationWithTasks ==
    (/\ ListedByOrg
     /\ last.err = NoErr
     /\ \/ last.arg.After # NoID
        \/ OrgTaskIDs(last.pre, last.arg.OrganizationID) # <<>>) =>
        \A i \in 1..Len(last.ret) : last.ret[i].OrganizationID = last.arg.OrganizationID

\* the tasks after the last task of O were asked for, another organization
\* with a larger ID had a task, and nothing was returned
NothingAfterLast ==
    LET ids == OrgTaskIDs(last.pre, last.arg.OrganizationID)
    IN /\ ListedByOrg
       /\ last.err = NoErr
       /\ ids # <<>>
       /\ last.arg.After = ids[Len(ids)]
       /\ \E o \in Orgs : o > last.arg.OrganizationID /\ OrgTaskIDs(last.pre, o) # <<>>
       /\ last.ret = <<>>

----------------------------------------------------------------------------
(* The org index *)

\* C27: in every reachable state the org index holds the entry
\* (orgID, taskID) -> taskID exactly when a task record with that ID and that
\* organization is stored, and holds nothing else; CreateTask, UpdateTask and
\* DeleteTask keep it so.
OrgIndexConsistent ==
    /\ \A k \in DOMAIN indexB :
           /\ Len(k) = 2
           /\ indexB[k] = taskKey(k[2])
           /\ taskKey(k[2]) \in DOMAIN taskB
           /\ taskB[taskKey(k[2])].OrganizationID = k[1]
    /\ \A k \in DOMAIN taskB :
           Len(k) = 1 =>
               /\ taskB[k].ID = k[1]
               /\ taskOrgKey(taskB[k].OrganizationID, k[1]) \in DOMAIN indexB

\* C27 happens: one of two tasks was deleted and the other, which had been
\* updated, is still stored and indexed
OrgIndexConsistentWitness ==
    /\ last.op = "DeleteTask"
    /\ last.err = NoErr
    /\ \E k \in DOMAIN indexB : taskB[taskKey(k[2])].UpdatedAt # Empty
    /\ Cardinality(DOMAIN last.pre.index) = 2
    /\ Cardinality(DOMAIN indexB) = 1

----------------------------------------------------------------------------
(* Validation of the script *)

\* the step is the call CreateTask(o, opt): it has the outcome and the effects of
\* createTask with these arguments
CreateTaskStep(o, opt) ==
    LET res == createTask(Tx, o, opt, nextID, clock)
    IN /\ last'.op = "CreateTask"
       /\ last'.arg = o
       /\ last'.err = res.err
       /\ Tx' = Update(Tx, res)
       /\ nextID' = nextID + res.gen

\* the step, if it is a CreateTask or an UpdateTask with a script
\* options.FromScript rejects, fails and writes nothing; the error is of the
\* invalid-argument kind when the organization, or the task, exists
RejectedScriptStep ==
    /\ \A o \in Orgs \cup {NoOrg}, opt \in Options :
           (~opt.ok /\ CreateTaskStep(o, opt)) =>
               /\ last'.err # NoErr
               /\ o \in Orgs => Code(last'.err) = "EInvalid"
               /\ Tx' = Tx
               /\ nextID' = nextID
    /\ (last'.op = "UpdateTask" /\ last'.arg.hasFlux /\ ~last'.arg.opt.ok) =>
           /\ last'.err # NoErr
           /\ taskKey(last'.task) \in DOMAIN taskB => Code(last'.err) = "EInvalid"
           /\ Tx' = Tx

CreateTaskRejected ==
    /\ last.op = "CreateTask"
    /\ last.arg \in Orgs
    /\ last.err = ErrTaskOptionParse

----------------------------------------------------------------------------
(* The status of the stored runs *)

\* the keys of the latest-completed pointers of a run bucket
PointerKeys(b) == {k \in DOMAIN b : Len(k) = 2 /\ k[2] = LatestCompletedSuffix}

\* C29: in every reachable state, every run stored in a currently-running
\* partition or as a latest-completed pointer has a status that is one of
\* scheduled, started, success, failed and canceled, the runs that came from
\* the manual queue included.
RunStatusDomain ==
    \A k \in RunKeys(runB) \cup PointerKeys(runB) : runB[k].Status \in RunStatuses

\* the runs created on the scheduled path have a status of the domain for as
\* long as they are stored
ScheduledRunStatusDomain ==
    \A k \in RunKeys(runB) \cup PointerKeys(runB) :
        runB[k].RequestedAt = Empty => runB[k].Status \in RunStatuses

----------------------------------------------------------------------------
(* The owner of the run-ledger state *)

\* C30: in every reachable state, every key of the run keyspace (a run T/R,
\* the manual queue T/manualRuns, the pointer T/latestCompleted) has a task
\* prefix T whose task record is stored; neither ForceRun on an ID without a
\* task record nor DeleteTask leaves run-ledger state of a task that does not
\* exist.
RunOwnership == \A k \in DOMAIN runB : taskKey(k[1]) \in DOMAIN taskB

\* ForceRun succeeded for an ID that has no task record
ForcedWithoutTask ==
    /\ last.op = "ForceRun"
    /\ last.err = NoErr
    /\ ~PreTaskExists

\* DeleteTask succeeded and left a key under the task's prefix
LedgerOutlivesTask ==
    /\ last.op = "DeleteTask"
    /\ last.err = NoErr
    /\ \E k \in DOMAIN runB : k[1] = last.task

----------------------------------------------------------------------------
(* C31: the scan of CurrentlyRunning                                          *)

\* the run keys of task t in run bucket b: T/runID, never a reserved suffix
ScanKeys(b, t) ==
    {k \in DOMAIN b : Len(k) = 2 /\ k[1] = t
                      /\ k[2] \notin {LatestCompletedSuffix, ManualRunsSuffix}}

ScannedKeys == SortedKeys(ScanKeys(last.pre.runs, last.task))

\* C31: CurrentlyRunning(T) returns exactly the run records stored under the
\* keys T/runID, each once and in key order, and never the manual queue, the
\* pointer or a run of another task, whatever else the run bucket holds; it
\* changes nothing.
CurrentlyRunningExact ==
    last.op = "CurrentlyRunning" =>
        /\ last.err = NoErr
        /\ Len(last.ret) = Len(ScannedKeys)
        /\ \A i \in 1..Len(ScannedKeys) : last.ret[i] = last.pre.runs[ScannedKeys[i]]
        /\ \A i \in 1..Len(last.ret) : last.ret[i].TaskID = last.task
        /\ Tx = last.pre

\* a scan over a bucket that holds a run, the queue and the pointer of the
\* task, next to a second task
CurrentlyRunningExactWitness ==
    /\ last.op = "CurrentlyRunning"
    /\ Len(last.ret) >= 1
    /\ taskManualRunKey(last.task) \in DOMAIN last.pre.runs
    /\ taskLatestCompletedKey(last.task) \in DOMAIN last.pre.runs
    /\ \E k \in DOMAIN last.pre.tasks : k # taskKey(last.task)

----------------------------------------------------------------------------
(* C32: the operations of one task leave every other task alone              *)

LedgerOps ==
    {"ForceRun", "RetryRun", "CreateNextRun", "FinishRun", "UpdateRunState",
     "AddRunLog", "CancelRun", "DeleteTask"}

\* what bucket b holds under the keys whose segment seg names task t
KeysOf(b, seg, t) == {k \in DOMAIN b : k[seg] = t}
Owned(b, seg, t) == [k \in KeysOf(b, seg, t) |-> b[k]]

\* everything the store tx holds for task t: its record, its org-index
\* entry, its runs, its queue and its pointer
TaskState(tx, t) ==
    [tasks |-> Owned(tx.tasks, 1, t), runs |-> Owned(tx.runs, 1, t),
     index |-> Owned(tx.index, 2, t)]

\* the argument the calls of the two tasks give to operation op
ArgOf(op, now) ==
    CASE op = "CreateNextRun" -> now
      [] op = "UpdateRunState" -> "started"
      [] op = "AddRunLog" -> "a"
      [] OTHER -> 0

\* the store after operation op of task t, called with the identifier id
Call(op, tx, t, r, a, id, now) ==
    Update(tx,
        CASE op = "ForceRun" -> forceRun(tx, t, a, id, now)
          [] op = "RetryRun" -> retryRun(tx, t, r, id)
          [] op = "CreateNextRun" -> createNextRun(tx, t, a, id)
          [] op = "FinishRun" -> finishRun(tx, t, r)
          [] op = "UpdateRunState" -> updateRunState(tx, t, r, now, a)
          [] op = "AddRunLog" -> addRunLog(tx, t, r, now, a)
          [] op = "CancelRun" -> cancelRun(tx, t, r)
          [] op = "DeleteTask" -> deleteTask(tx, t))

\* the call just made leaves every key of every other task as it was
OtherTasksKept ==
    \A b \in (1..MaxPairID) \ {last.task} : TaskState(Tx, b) = TaskState(last.pre, b)

\* the call just made and any call of another task give the same store in
\* either order, each call keeping the identifier it draws
CommutesWithOthers ==
    LET id == nextID - last.gen
        A(tx) == Call(last.op, tx, last.task, last.run, last.arg, id, clock)
    IN \A b \in known \ {last.task}, ob \in LedgerOps, r \in RunArgs \cup {0} :
          LET B(tx) == Call(ob, tx, b, r, ArgOf(ob, clock), nextID, clock)
          IN B(A(last.pre)) = A(B(last.pre))

\* C32: ForceRun, RetryRun, CreateNextRun, FinishRun, UpdateRunState,
\* AddRunLog, CancelRun and DeleteTask of task A leave the task record, the
\* org-index entry, the runs, the queue and the pointer of every other task
\* B unchanged, and a call of A and a call of B give the same store in either
\* order (each call keeping the identifier it draws from the generator).
TaskFrame == last.op \in LedgerOps => OtherTasksKept /\ CommutesWithOthers

\* a successful call of one task while another task holds a record, an index
\* entry, a run, a queue and a pointer
TaskFrameWitness ==
    /\ last.op \in LedgerOps
    /\ last.err = NoErr
    /\ Tx # last.pre
    /\ \E b \in known \ {last.task} :
          /\ taskKey(b) \in DOMAIN last.pre.tasks
          /\ KeysOf(last.pre.index, 2, b) # {}
          /\ taskManualRunKey(b) \in DOMAIN last.pre.runs
          /\ \E k \in RunKeys(last.pre.runs) : k[1] = b

----------------------------------------------------------------------------
(* C33: NextDueRun against the due time of CreateNextRun                      *)

\* what CreateNextRun of the task just asked would do at time now
NextRunAt(now) == createNextRun(last.pre, last.task, now, nextID)

\* C33: for a task with nothing queued NextDueRun equals the DueAt that
\* CreateNextRun reports when it is called too early, the offset included,
\* and CreateNextRun creates a run exactly at the times now >= NextDueRun.
NextDueMatchesCreateNextRun ==
    (last.op = "NextDueRun" /\ last.err = NoErr /\ PreQueue = <<>>) =>
        \A now \in 0..MaxTime :
            /\ NextRunAt(now).err = NoErr <=> now >= last.ret
            /\ NextRunAt(now).err = RunNotYetDueError => NextRunAt(now).ret.DueAt = last.ret

\* NextDueRun of a task without an offset and without a pointer does agree
NextDueWithoutOffset ==
    /\ last.op = "NextDueRun" /\ last.err = NoErr /\ PreQueue = <<>>
    /\ PreTask.Offset = 0
    /\ ~PrePointerExists
    /\ \E now \in 0..MaxTime : NextRunAt(now).err = NoErr
    /\ \E now \in 0..MaxTime : NextRunAt(now).err = RunNotYetDueError

----------------------------------------------------------------------------
(* C34: what the manual branch of CreateNextRun changes                       *)

\* the run bucket without the queue of task t and without the key k
OutsidePop(b, t, k) == [j \in DOMAIN b \ {taskManualRunKey(t), k} |-> b[j]]

ManualPopLeavesQueue ==
    /\ last.op = "CreateNextRun"
    /\ last.err = NoErr
    /\ Len(PreQueue) >= 2
    /\ last.ret.HasQueue

----------------------------------------------------------------------------
(* C35: UpdateRunState enforces no order of states                            *)

TerminalStatuses == {"success", "failed", "canceled"}

\* C35: UpdateRunState(T, R, when, s) succeeds whatever the current status of
\* R and whatever s (a finished run may be started again, a started run set
\* back to scheduled, a state set twice) and fails only when no run is stored
\* under T/R; a finishedAt that is set stays as it is when the run is set
\* back to started.
NoTransitionOrder ==
    last.op = "UpdateRunState" =>
        /\ last.err = NoErr <=> PreRunExists
        /\ PreRunExists =>
              /\ runB[PreRunKey].Status = last.arg
              /\ last.arg = "started" =>
                    runB[PreRunKey].FinishedAt = last.pre.runs[PreRunKey].FinishedAt

\* a run that had finished was started again and kept its finishedAt
NoTransitionOrderWitness ==
    /\ last.op = "UpdateRunState"
    /\ last.err = NoErr
    /\ PreRunExists
    /\ last.arg = "started"
    /\ last.pre.runs[PreRunKey].Status \in TerminalStatuses
    /\ last.pre.runs[PreRunKey].FinishedAt # Empty
    /\ runB[PreRunKey].FinishedAt = last.pre.runs[PreRunKey].FinishedAt

\* a successful call that found the stored status from and set the state to
StatusPair(from, to) ==
    /\ last.op = "UpdateRunState"
    /\ last.err = NoErr
    /\ PreRunExists
    /\ last.pre.runs[PreRunKey].Status = from
    /\ last.arg = to

\* a started run was set back to scheduled
StartedBackToScheduled == StatusPair("started", "scheduled")

\* a state was set twice
SameStateTwice == StatusPair("failed", "failed")

\* UpdateRunState of a run that is not stored
UpdateOfMissingRun == last.op = "UpdateRunState" /\ ~PreRunExists /\ last.err # NoErr

----------------------------------------------------------------------------
(* C36: the one key written by UpdateRunState, AddRunLog and CancelRun       *)

RunWriteOps == {"UpdateRunState", "AddRunLog", "CancelRun"}

\* the successful call just made wrote nothing but the run key T/R of the
\* run bucket
OnlyRunKeyWritten ==
    /\ taskB = last.pre.tasks
    /\ indexB = last.pre.index
    /\ DOMAIN runB = DOMAIN last.pre.runs
    /\ \A k \in DOMAIN runB \ {PreRunKey} : runB[k] = last.pre.runs[k]

\* the task bucket holds task records under task IDs and nothing else
TaskKeysOnly == \A k \in DOMAIN taskB : Len(k) = 1

\* C36: a successful UpdateRunState, AddRunLog or CancelRun on T/R writes
\* exactly one key, T/R in the run bucket; the task bucket (task records
\* keyed by task ID, nothing else), the org index, the queue, the pointer and
\* every other run stay as they were.
RunWriteFrame ==
    (last.op \in RunWriteOps /\ last.err = NoErr) => OnlyRunKeyWritten /\ TaskKeysOnly

\* UpdateRunState and AddRunLog alone do keep to the run key
RunWriteFrameButCancel ==
    (last.op \in RunWriteOps \ {"CancelRun"} /\ last.err = NoErr) => OnlyRunKeyWritten

----------------------------------------------------------------------------
(* C37: the page size bounds the result of FindTasks                          *)

\* the page size the last FindTasks works with
EffectiveLimit == IF last.arg.Limit = 0 THEN TaskDefaultPageSize ELSE last.arg.Limit

\* C37: a successful FindTasks by organization with Limit in 1..MaxPageSize
\* (or 0, which stands for the default), with or without after, returns at
\* most Limit tasks; with Limit = 1 it returns at most one.
PageSizeBound ==
    (ListedByOrg /\ last.err = NoErr /\ last.arg.Limit \in 0..TaskMaxPageSize) =>
        Len(last.ret) <= EffectiveLimit

\* the bound does hold of every page asked for after a task
PageSizeBoundAfter ==
    (/\ ListedByOrg /\ last.err = NoErr /\ last.arg.Limit \in 0..TaskMaxPageSize
     /\ last.arg.After # NoID) =>
        Len(last.ret) <= EffectiveLimit

\* and of every first page of two tasks or more
PageSizeBoundLarger ==
    (/\ ListedByOrg /\ last.err = NoErr /\ last.arg.Limit \in {0} \cup (2..TaskMaxPageSize)) =>
        Len(last.ret) <= EffectiveLimit

----------------------------------------------------------------------------
(* C38: the goroutines makeThubnails4 leaves behind                           *)

\* the goroutines of makeThubnails4 that have not ended
ThumbsRunning == {f \in Files : thumbWorkers[f].pc # "done"}

\* once the caller has returned, no goroutine that is still running ends
StuckAfterReturn ==
    (errors.cap = 0 /\ thumbMain.pc = "returned") =>
        \A f \in ThumbsRunning : thumbWorkers'[f].pc # "done"

\* with the buffered channel a goroutine at its send never has to wait
SendHasRoom ==
    (errors.cap = MaxFiles /\ thumbMain.pc # "idle") =>
        \A f \in Files : thumbWorkers[f].pc = "send" => CanSend(errors, thumbMain.pc = "recv")

\* C38: with the unbuffered channel, once makeThubnails4 has returned (at
\* the first error that is not nil) every goroutine that has not yet sent
\* stays blocked at its send for ever; with the channel buffered to
\* len(filenames) no send ever waits and every goroutine ends.
ThumbnailLeak ==
    /\ [][StuckAfterReturn]_vars
    /\ []SendHasRoom
    /\ (errors.cap = MaxFiles /\ thumbMain.pc # "idle") ~> (ThumbsRunning = {})

\* makeThubnails4 has returned the first error while two goroutines wait at
\* their send on the unbuffered channel
ThumbnailLeakWitness ==
    /\ errors.cap = 0
    /\ thumbMain.pc = "returned"
    /\ thumbMain.ret = ImageErr
    /\ Cardinality({f \in Files : thumbWorkers[f].pc = "send"}) = MaxFiles - 1

\* with the unbuffered channel and no error every goroutine ends
ThumbnailsAllSent ==
    /\ errors.cap = 0
    /\ thumbMain.pc = "returned"
    /\ thumbMain.ret = NoErr
    /\ ThumbsRunning = {}

\* with the buffered channel the caller returned an error, and every
\* goroutine has ended all the same
ThumbnailsBufferedDone ==
    /\ errors.cap = MaxFiles
    /\ thumbMain.pc = "returned"
    /\ thumbMain.ret = ImageErr
    /\ ThumbsRunning = {}
    /\ errors.buf # <<>>

----------------------------------------------------------------------------
(* C39: mirroredQuery and its three senders                                   *)

SendersRunning == {h \in Hosts : senders[h].pc # "done"}

\* what mirroredQuery has returned is one response, the first that was sent
FirstResponseReturned ==
    query.pc = "returned" =>
        /\ \E h \in Hosts : query.ret = request(HostNames[h])
        /\ query.ret = sent[1]

\* with capacity 3 a sender at its send never has to wait
ResponseHasRoom ==
    (responses.cap = Len(HostNames) /\ query.pc # "idle") =>
        \A h \in Hosts : senders[h].pc = "send" => CanSend(responses, query.pc = "recv")

\* with the unbuffered channel one sender has ended when mirroredQuery
\* returns, and the two others never end
SlowSendersStuck ==
    (responses.cap = 0 /\ query.pc = "returned") =>
        /\ Cardinality(SendersRunning) = Len(HostNames) - 1
        /\ \A h \in SendersRunning : senders'[h].pc # "done"

\* C39: with the channel of capacity 3 mirroredQuery returns exactly one of
\* the three responses, the first one sent, no send ever waits, and in every
\* interleaving all three senders complete their send and end; with an
\* unbuffered channel the two slower senders stay blocked for ever.
MirroredQueryNoLeak ==
    /\ []FirstResponseReturned
    /\ []ResponseHasRoom
    /\ (responses.cap = Len(HostNames) /\ query.pc # "idle")
          ~> (SendersRunning = {} /\ query.pc = "returned")
    /\ [][SlowSendersStuck]_vars

\* mirroredQuery has returned the first of three responses sent on the
\* channel of capacity 3, and the three senders have ended
MirroredQueryNoLeakWitness ==
    /\ responses.cap = Len(HostNames)
    /\ query.pc = "returned"
    /\ SendersRunning = {}
    /\ Len(sent) = Len(HostNames)
    /\ query.ret = sent[1]
    /\ query.ret # HostNames[1]
    /\ Len(responses.buf) = Len(HostNames) - 1

\* mirroredQuery has returned and two senders wait at their send on the
\* unbuffered channel
MirroredQueryLeak ==
    /\ responses.cap = 0
    /\ query.pc = "returned"
    /\ Cardinality({h \in Hosts : senders[h].pc = "send"}) = Len(HostNames) - 1

----------------------------------------------------------------------------
(* C40: the singleton accessors                                               *)

\* the callers of accessor fn that have returned
ReturnedFrom(fn) == {c \in Callers : callers[c].fn = fn /\ callers[c].pc = "done"}

\* the number of Single values accessor fn has allocated
CreatedBy(fn) == Cardinality({i \in 1..Len(allocs) : allocs[i] = fn})

\* accessor fn has created at most one Single and has given the same
\* non-nil Single to every caller
OneInstance(fn) ==
    /\ CreatedBy(fn) <= 1
    /\ \A c \in ReturnedFrom(fn) : callers[c].ret # NilSingle
    /\ \A c, d \in ReturnedFrom(fn) : callers[c].ret = callers[d].ret

\* C40: under every interleaving of concurrent callers GetInstance2,
\* GetInstance4 and GetInstance5 each create their instance at most once and
\* return the same non-nil instance to every caller.
SingletonAccessors == OneInstance(2) /\ OneInstance(4) /\ OneInstance(5)

\* GetInstance4 and GetInstance5 do so
SingletonAccessors45 == OneInstance(4) /\ OneInstance(5)

\* and so does GetInstance2 as long as nobody calls GetInstance1, whose
\* variable it shares
GetInstance2Alone == (\A c \in Callers : callers[c].fn # 1) => OneInstance(2)

\* two callers of GetInstance1 have received different instances
GetInstance1Differs ==
    \E c, d \in ReturnedFrom(1) :
        /\ callers[c].ret # callers[d].ret
        /\ callers[c].ret # NilSingle
        /\ callers[d].ret # NilSingle

\* three callers of GetInstance4, or of GetInstance5, have all returned
ThreeCallersReturned == \E fn \in {4, 5} : ReturnedFrom(fn) = Callers

============================================================================
